---- MODULE Spec2Model ----
(***************************************************************************)
(* FS25 Engine and Transmission Config Tool (src/fs25_config_tool.py).     *)
(*                                                                         *)
(* Numbers.  The program computes with Python floats.  Here every value   *)
(* that the code obtains with +, -, *, / from its inputs is an exact       *)
(* rational [n, d] (d > 0, lowest terms); the inputs are integer valued,   *)
(* as every preset and form default of the program is.  The results of    *)
(* x ** e (irrational in general) are rounded down to the grid 1/PowScale. *)
(* round(x, 3) and the ".0f", ".2f", ".3f" formats are computed digit by   *)
(* digit (round half to even).  NaN, infinities and the rounding of the    *)
(* last bit of a double are outside the model, but for the text "nan" in  *)
(* an entry of the form, which float() parses, and for SpecBinary64, which *)
(* runs generate_torque_curve on doubles of the binade [2^53, 2^54), where *)
(* the doubles are the even integers and every sum is rounded to one.      *)
(* Names are plain texts: none holds one of the characters <, > and ".     *)
(***************************************************************************)
EXTENDS Integers, Sequences, FiniteSets, TLC

VARIABLES
    args,       \* the arguments of the call under way (runs of one function)
    result,     \* what the call returned or raised; "pending" before it
    pc,         \* "call" before the call, "done" after it; "gui" in the application
    self_engine_data,        \* FS25ConfigTool.engine_data: the engine form
    self_transmission_data,  \* FS25ConfigTool.transmission_data: the transmission form
    xml_text,   \* the XML preview (self.xml_text), a document or <<>> when empty
    clipboard,  \* the system clipboard, a document or <<>> when empty
    files,      \* the file system: file name -> content, <<>> when absent
    dialog,     \* the message box the last user action showed
    failure,    \* what failed in the last user action: an exception, or "" for nothing
    steps,      \* the user actions so far
    callback,   \* the handler the last user action ran, "" before the first
    askyesno,   \* the user's answer to the question the last user action asked:
                \* "yes" or "no", "" when it asked nothing
    ENGINE_PRESETS,        \* PresetManager.ENGINE_PRESETS: name -> engine dictionary
    TRANSMISSION_PRESETS,  \* PresetManager.TRANSMISSION_PRESETS: name -> transmission dictionary
    _preset_lock,  \* PresetManager._preset_lock: NoLock (None) or a lock of locks
    locks,      \* the threading.Lock objects created so far: for each, the thread
                \* holding it, or NoThread
    threads     \* the threads calling PresetManager: for each, its position in
                \* the call under way and its local values

call_vars == <<args, result, pc>>
preset_vars == <<ENGINE_PRESETS, TRANSMISSION_PRESETS>>
lock_vars == <<_preset_lock, locks, threads>>
window_vars == <<self_engine_data, self_transmission_data, xml_text, clipboard, files,
                 dialog, failure, steps, callback, askyesno>>
gui_vars == <<self_engine_data, self_transmission_data, xml_text, clipboard, files,
              dialog, failure, steps, callback, askyesno, ENGINE_PRESETS,
              TRANSMISSION_PRESETS, lock_vars>>
vars == <<args, result, pc, self_engine_data, self_transmission_data, xml_text,
          clipboard, files, dialog, failure, steps, callback, askyesno, ENGINE_PRESETS,
          TRANSMISSION_PRESETS, _preset_lock, locks, threads>>

----------------------------------------------------------------------------
(* Bounds of the model *)

\* resolution of the results of ** : multiples of 1/PowScale
PowScale == 64

\* the longest sequence of tag tokens given to format_xml on its own
MaxParts == 4

\* the number of threads calling PresetManager at the same time
MaxThreads == 2

\* the number of calls of PresetManager each thread makes
MaxCalls == 2

\* the user actions (field edits, button presses) of one session
MaxSteps == 3

\* the doubles 2^53 + 2 * k given to generate_torque_curve: k in 0..MaxUlps
MaxUlps == 11

----------------------------------------------------------------------------
(* Exact rational arithmetic *)

Abs(x) == IF x < 0 THEN -x ELSE x

RECURSIVE GCD(_, _)
GCD(a, b) == IF b = 0 THEN a ELSE GCD(b, a % b)

\* the rational n/d in lowest terms, d > 0
Rat(n, d) ==
    LET s == IF d < 0 THEN -1 ELSE 1
        g == GCD(Abs(n), Abs(d))
    IN  [n |-> (s * n) \div g, d |-> (s * d) \div g]

RInt(k) == [n |-> k, d |-> 1]

RAdd(a, b) ==
    LET g == GCD(a.d, b.d)
    IN  Rat(a.n * (b.d \div g) + b.n * (a.d \div g), (a.d \div g) * b.d)

RNeg(a) == [n |-> -a.n, d |-> a.d]

RSub(a, b) == RAdd(a, RNeg(b))

\* cross-cancelled product: the factors stay small
RMul(a, b) ==
    LET g1 == GCD(Abs(a.n), b.d)
        g2 == GCD(Abs(b.n), a.d)
    IN  Rat((a.n \div g1) * (b.n \div g2), (a.d \div g2) * (b.d \div g1))

\* a / b for b # 0
RDiv(a, b) == RMul(a, Rat(b.d, b.n))

\* float('nan'): no number; every comparison with it is false
NaN == [n |-> 0, d |-> 0]
IsNaN(a) == a.d = 0

RLt(a, b) ==
    /\ ~ IsNaN(a) /\ ~ IsNaN(b)
    /\ LET g == GCD(a.d, b.d)
       IN  a.n * (b.d \div g) < b.n * (a.d \div g)

RLe(a, b) == ~ IsNaN(a) /\ ~ IsNaN(b) /\ ~ RLt(b, a)

RMax(a, b) == IF RLt(a, b) THEN b ELSE a

RECURSIVE RMaxOf(_)
RMaxOf(s) == IF Len(s) = 1 THEN s[1] ELSE RMax(s[1], RMaxOf(Tail(s)))

\* n/d rounded to the nearest integer, ties to the even one (d > 0)
RoundHalfEven(n, d) ==
    LET q == n \div d
        r == n % d
    IN  IF 2 * r < d THEN q
        ELSE IF 2 * r > d THEN q + 1
        ELSE IF q % 2 = 0 THEN q ELSE q + 1

\* x rounded to a multiple of 1/unit: round(x, 3) is RoundTo(x, 1000), and the
\* formats ".0f", ".2f", ".3f" are RoundTo(x, 1), RoundTo(x, 100), RoundTo(x, 1000).
\* A value exactly half way is rounded to even; the program rounds the double
\* nearest to it, which may lie on either side.
RoundTo(x, unit) == Rat(RoundHalfEven(x.n * unit, x.d), unit)

----------------------------------------------------------------------------
(* x ** e for 0 <= x <= 1, rounded down to the grid 1/PowScale *)

\* x on the grid, rounded down
Quantize(x) == (PowScale * x.n) \div x.d

\* the largest r in lo..hi with r^k <= m (k = 2 or 5), by bisection; lo^k <= m
Power(r, k) == IF k = 2 THEN r * r ELSE r * r * r * r * r

RECURSIVE Bisect(_, _, _, _)
Bisect(lo, hi, k, m) ==
    IF lo = hi THEN lo
    ELSE LET mid == (lo + hi + 1) \div 2
         IN  IF Power(mid, k) <= m THEN Bisect(mid, hi, k, m)
             ELSE Bisect(lo, mid - 1, k, m)

ISqrt(m) == Bisect(0, PowScale, 2, m)
IRoot5(m) == Bisect(0, PowScale, 5, m)

\* x ** 0.8 = (x^4)^(1/5)
Pow_0_8(x) ==
    LET q == Quantize(x)
    IN  Rat(IRoot5(q * q * q * q * PowScale), PowScale)

\* x ** 0.3 = ((x^3)^(1/5))^(1/2)
Pow_0_3(x) ==
    LET q == Quantize(x)
    IN  Rat(ISqrt(IRoot5(q * q * q * PowScale * PowScale) * PowScale), PowScale)

\* x ** 0.5
Pow_0_5(x) == Rat(ISqrt(Quantize(x) * PowScale), PowScale)

\* x ** 0.7 = x^(1/2) * x^(1/5)
Pow_0_7(x) ==
    LET q == Quantize(x)
        a == ISqrt(q * PowScale)
        b == IRoot5(q * PowScale * PowScale * PowScale * PowScale)
    IN  Rat((a * b) \div PowScale, PowScale)

----------------------------------------------------------------------------
(* Results of a call: a value, or the exception it raised *)

Ok(v) == [ok |-> TRUE, value |-> v]
Raise(kind, msg) == [ok |-> FALSE, error |-> kind, msg |-> msg]

----------------------------------------------------------------------------
(* PresetManager: the built-in presets, preset files *)

\* one entry of ENGINE_PRESETS / TRANSMISSION_PRESETS
EnginePreset(name, cost, horsepower, min_rpm, max_rpm, fuel_usage_scale, turbocharged) ==
    [name |-> name, cost |-> cost, horsepower |-> horsepower, min_rpm |-> min_rpm,
     max_rpm |-> max_rpm, fuel_usage_scale |-> fuel_usage_scale,
     turbocharged |-> turbocharged]
TransmissionPreset(name, cost, type, top_speed, num_forward, num_reverse, enable, boost) ==
    [name |-> name, cost |-> cost, type |-> type, top_speed |-> top_speed,
     num_forward |-> num_forward, num_reverse |-> num_reverse,
     enable_low_gearing |-> enable, low_gear_boost |-> boost]

\* the class attribute ENGINE_PRESETS
BuiltinEnginePresets ==
    [n \in {"7.3 Powerstroke", "6.0 Powerstroke", "6.7 Powerstroke", "5.9 Cummins",
            "6.7 Cummins"} |->
        CASE n = "7.3 Powerstroke" -> EnginePreset(n, 8500, 275, 600, 3500, Rat(1, 1), TRUE)
          [] n = "6.0 Powerstroke" -> EnginePreset(n, 12000, 325, 650, 3500, Rat(11, 10), TRUE)
          [] n = "6.7 Powerstroke" -> EnginePreset(n, 18000, 475, 650, 3500, Rat(13, 10), TRUE)
          [] n = "5.9 Cummins" -> EnginePreset(n, 11000, 325, 700, 3500, Rat(1, 1), TRUE)
          [] n = "6.7 Cummins" -> EnginePreset(n, 15000, 400, 700, 3500, Rat(12, 10), TRUE)]

\* the class attribute TRANSMISSION_PRESETS
BuiltinTransmissionPresets ==
    [n \in {"10-speed Allison Automatic", "13-speed Eaton Fuller",
            "4-speed with Granny Gear", "18-speed Eaton Fuller"} |->
        CASE n = "10-speed Allison Automatic" ->
                 TransmissionPreset(n, 8000, "Automatic", 120, 10, 2, FALSE, 25)
          [] n = "13-speed Eaton Fuller" ->
                 TransmissionPreset(n, 12000, "Manual", 140, 13, 2, FALSE, 25)
          [] n = "4-speed with Granny Gear" ->
                 TransmissionPreset(n, 5000, "Manual", 80, 5, 1, TRUE, 50)
          [] n = "18-speed Eaton Fuller" ->
                 TransmissionPreset(n, 15000, "Manual", 160, 18, 2, FALSE, 25)]

\* JSON values: numbers keep their type (8500 is an int, 1.0 a float)
JInt(k) == [type |-> "int", value |-> RInt(k)]
JFloat(x) == [type |-> "float", value |-> x]
JStr(text) == [type |-> "str", value |-> text]
JBool(b) == [type |-> "bool", value |-> b]

\* json.dump of the dictionary get_engine_data returns: cost is an int,
\* horsepower, min_rpm, max_rpm and fuel_usage_scale are floats
engine_json(engine_data) ==
    [name |-> JStr(engine_data.name), cost |-> JInt(engine_data.cost),
     horsepower |-> JFloat(RInt(engine_data.horsepower)),
     min_rpm |-> JFloat(RInt(engine_data.min_rpm)),
     max_rpm |-> JFloat(RInt(engine_data.max_rpm)),
     fuel_usage_scale |-> JFloat(engine_data.fuel_usage_scale),
     turbocharged |-> JBool(engine_data.turbocharged)]

\* json.dump of the dictionary get_transmission_data returns: cost, num_forward
\* and num_reverse are ints, top_speed and low_gear_boost floats
transmission_json(transmission_data) ==
    [name |-> JStr(transmission_data.name), type |-> JStr(transmission_data.type),
     cost |-> JInt(transmission_data.cost),
     top_speed |-> JFloat(RInt(transmission_data.top_speed)),
     num_forward |-> JInt(transmission_data.num_forward),
     num_reverse |-> JInt(transmission_data.num_reverse),
     enable_low_gearing |-> JBool(transmission_data.enable_low_gearing),
     low_gear_boost |-> JFloat(RInt(transmission_data.low_gear_boost))]

\* the content of a file: a JSON object, or a text json.load does not parse
JsonFile(object) == [json |-> object]
GarbageFile == [text |-> "not json"]

\* a JSON object without one of its keys
Without(object, key) == [k \in DOMAIN object \ {key} |-> object[k]]

\* preset files found on the disk when the application starts: complete,
\* one without "engine", one whose engine has no "cost", one whose
\* transmission has no "type", an empty object, and one that is not JSON
PresetFilesOnDisk ==
    LET engine == engine_json(BuiltinEnginePresets["7.3 Powerstroke"])
        transmission == transmission_json(BuiltinTransmissionPresets["4-speed with Granny Gear"])
    IN  [f \in {"full.json", "no_engine.json", "no_cost.json", "no_type.json",
                "empty.json", "garbage.json"} |->
            CASE f = "full.json" ->
                     JsonFile([engine |-> engine, transmission |-> transmission])
              [] f = "no_engine.json" -> JsonFile([transmission |-> transmission])
              [] f = "no_cost.json" ->
                     JsonFile([engine |-> Without(engine, "cost"),
                               transmission |-> transmission])
              [] f = "no_type.json" ->
                     JsonFile([engine |-> engine,
                               transmission |-> Without(transmission, "type")])
              [] f = "empty.json" -> JsonFile(<<>>)
              [] f = "garbage.json" -> GarbageFile]

----------------------------------------------------------------------------
(* FS25ConfigTool: the application after __init__ *)

\* The text of an entry field: "int" for a text int() and float() both parse
\* ("600", "-1"), "float" for a text only float() parses ("1.0", "25.0"), "bad"
\* for a text neither parses ("abc", ""); value is the number the text denotes
TextInt(k) == [kind |-> "int", value |-> RInt(k)]
TextFloat(x) == [kind |-> "float", value |-> x]
TextBad == [kind |-> "bad", value |-> RInt(0)]
\* the text "nan", which float() parses to float('nan') and int() refuses
TextNan == [kind |-> "float", value |-> NaN]

\* int(text) and float(text) raise ValueError on a text they do not parse
int_parses(text) == text.kind = "int"
float_parses(text) == text.kind \in {"int", "float"}

\* str.strip() on the names of the model: a blank name becomes empty
strip(name) == IF name \in {"", " ", "  "} THEN "" ELSE name

\* the form after __init__
InitialEngineForm ==
    [name |-> "Custom Engine", cost |-> TextInt(10000), horsepower |-> TextInt(300),
     min_rpm |-> TextInt(600), max_rpm |-> TextInt(3500),
     fuel_usage_scale |-> TextFloat(RInt(1)), turbocharged |-> FALSE]
InitialTransmissionForm ==
    [name |-> "Custom Transmission", cost |-> TextInt(8000), type |-> "Manual",
     top_speed |-> TextInt(120), num_forward |-> TextInt(6), num_reverse |-> TextInt(1),
     enable_low_gearing |-> FALSE, low_gear_boost |-> TextFloat(RInt(25))]

\* the files of the model: those a save can write, their names coming from
\* the file dialog, and the preset files found on the disk
FileNames ==
    {"cfg.xml", "cfg_fs25.xml", "cfg_engine.xml", "cfg_transmission.xml", "cfg.json"}
        \cup DOMAIN PresetFilesOnDisk

\* message boxes: messagebox.showerror(title, ...) after catching exception exc,
\* messagebox.showinfo(title, ...), or none
NoDialog == [kind |-> "none", title |-> "", exc |-> ""]
ShowError(title, exc) == [kind |-> "error", title |-> title, exc |-> exc]
ShowInfo(title) == [kind |-> "info", title |-> title, exc |-> ""]

\* the threads that may call PresetManager
Threads == 1..MaxThreads

\* no thread holds the lock
NoThread == 0

\* _preset_lock = None
NoLock == 0

\* a thread outside PresetManager
IdleThread ==
    [pc |-> "idle", op |-> "", new_lock |-> NoLock, lock |-> NoLock, calls |-> 0,
     returned |-> <<>>]

\* the window of the application, once __init__ has run: default form, empty
\* preview, the built-in presets, no file written, no message box shown
InitWindow ==
    /\ self_engine_data = InitialEngineForm
    /\ self_transmission_data = InitialTransmissionForm
    /\ xml_text = <<>>
    /\ clipboard = <<>>
    /\ files = [f \in FileNames |->
                    IF f \in DOMAIN PresetFilesOnDisk THEN PresetFilesOnDisk[f] ELSE <<>>]
    /\ dialog = NoDialog
    /\ failure = ""
    /\ steps = 0
    /\ callback = ""
    /\ askyesno = ""
    /\ ENGINE_PRESETS = BuiltinEnginePresets
    /\ TRANSMISSION_PRESETS = BuiltinTransmissionPresets

\* the application once __init__ has run: the window, and the lock that the
\* first get_engine_presets() of the main thread has created and released
InitGui ==
    /\ InitWindow
    /\ locks = <<NoThread>>
    /\ _preset_lock = 1
    /\ threads = [t \in Threads |-> IdleThread]

----------------------------------------------------------------------------
(* TorqueCurveGenerator *)

\* peak_rpm = min_rpm + (max_rpm - min_rpm) * 0.65
peak_rpm(min_rpm, max_rpm) ==
    RAdd(RInt(min_rpm), RMul(RInt(max_rpm - min_rpm), Rat(65, 100)))

\* base_torque with the constant 9550
base_torque_9550(hp, min_rpm, max_rpm) ==
    RDiv(RInt(hp * 9550), peak_rpm(min_rpm, max_rpm))

\* base_torque = (hp * 9549) / peak_rpm
base_torque(hp, min_rpm, max_rpm) ==
    RDiv(RInt(hp * 9549), peak_rpm(min_rpm, max_rpm))

\* rpm_points with the step i / 10.0: the last sample stops short of max_rpm
rpm_points_step10(min_rpm, max_rpm) ==
    [k \in 1..10 |->
        RAdd(RInt(min_rpm), RMul(RInt(max_rpm - min_rpm), Rat(k - 1, 10)))]

\* rpm_points: min_rpm + (max_rpm - min_rpm) * (i / 9.0) for i in range(10);
\* a sequence, so point i of the code is rpm_points(..)[i + 1]
rpm_points(min_rpm, max_rpm) ==
    [k \in 1..10 |->
        RAdd(RInt(min_rpm), RMul(RInt(max_rpm - min_rpm), Rat(k - 1, 9)))]

\* the rpm from which the curve declines: peak_rpm * 0.8 (turbocharged), peak_rpm
threshold(min_rpm, max_rpm, turbocharged) ==
    IF turbocharged
    THEN RMul(peak_rpm(min_rpm, max_rpm), Rat(8, 10))
    ELSE peak_rpm(min_rpm, max_rpm)

\* the branch the sample takes: rpm < threshold is the rise
rising(rpm, min_rpm, max_rpm, turbocharged) ==
    RLt(rpm, threshold(min_rpm, max_rpm, turbocharged))

\* the number the sample's factor divides by
divisor(rpm, min_rpm, max_rpm, turbocharged) ==
    IF rising(rpm, min_rpm, max_rpm, turbocharged)
    THEN threshold(min_rpm, max_rpm, turbocharged)
    ELSE RSub(RInt(max_rpm), threshold(min_rpm, max_rpm, turbocharged))

\* the floor 0.5 for both kinds of engine
factor_floor_half(turbocharged) == Rat(5, 10)

\* the floor of the declining branch: max(0.7, factor), max(0.5, factor)
factor_floor(turbocharged) == IF turbocharged THEN Rat(7, 10) ELSE Rat(5, 10)

\* the shape factor of one sample (its divisor is not 0)
factor(rpm, min_rpm, max_rpm, turbocharged) ==
    LET th == threshold(min_rpm, max_rpm, turbocharged)
    IN  IF RLt(rpm, th)
        THEN IF turbocharged THEN Pow_0_7(RDiv(rpm, th)) ELSE Pow_0_8(RDiv(rpm, th))
        ELSE LET x == RDiv(RSub(rpm, th), RSub(RInt(max_rpm), th))
                 f == RSub(RInt(1), IF turbocharged THEN Pow_0_5(x) ELSE Pow_0_3(x))
             IN  RMax(factor_floor(turbocharged), f)

\* torque_points: (norm_rpm, torque) for every rpm of rpm_points
torque_points(hp, min_rpm, max_rpm, turbocharged) ==
    LET rpms == rpm_points(min_rpm, max_rpm)
        base == base_torque(hp, min_rpm, max_rpm)
    IN  [k \in 1..Len(rpms) |->
            [norm_rpm |-> RDiv(rpms[k], RInt(max_rpm)),
             torque   |-> RMul(base, factor(rpms[k], min_rpm, max_rpm, turbocharged))]]

\* generate_torque_curve with the first check hp < 0: hp = 0 passes
generate_torque_curve_hp0(hp, min_rpm, max_rpm, turbocharged) ==
    IF hp < 0 THEN Raise("ValueError", "Horsepower must be greater than 0")
    ELSE IF min_rpm < 0 THEN Raise("ValueError", "Minimum RPM cannot be negative")
    ELSE IF max_rpm <= min_rpm
    THEN Raise("ValueError", "Maximum RPM must be greater than minimum RPM")
    ELSE IF RLe(peak_rpm(min_rpm, max_rpm), RInt(0))
    THEN Raise("ValueError", "Peak RPM calculation resulted in zero or negative value")
    ELSE Ok(torque_points(hp, min_rpm, max_rpm, turbocharged))

\* generate_torque_curve: the checks in the code's order, then the curve
generate_torque_curve(hp, min_rpm, max_rpm, turbocharged) ==
    IF hp <= 0 THEN Raise("ValueError", "Horsepower must be greater than 0")
    ELSE IF min_rpm < 0 THEN Raise("ValueError", "Minimum RPM cannot be negative")
    ELSE IF max_rpm <= min_rpm
    THEN Raise("ValueError", "Maximum RPM must be greater than minimum RPM")
    ELSE IF RLe(peak_rpm(min_rpm, max_rpm), RInt(0))
    THEN Raise("ValueError", "Peak RPM calculation resulted in zero or negative value")
    ELSE IF \E k \in 1..10 :
                divisor(rpm_points(min_rpm, max_rpm)[k], min_rpm, max_rpm, turbocharged).n = 0
    THEN Raise("ZeroDivisionError", "float division by zero")
    ELSE Ok(torque_points(hp, min_rpm, max_rpm, turbocharged))

----------------------------------------------------------------------------
(* Runs of generate_torque_curve on its own *)

\* horsepower, minimum and maximum rpm the runs draw from
HpValues == {-5, 0, 100, 275}
MinRpmValues == {-100, 0, 17, 600, 1000}
MaxRpmValues == {0, 62, 600, 2200, 3500}

InitTorque ==
    /\ args \in [hp : HpValues, min_rpm : MinRpmValues, max_rpm : MaxRpmValues,
                 turbocharged : BOOLEAN]
    /\ result = "pending"
    /\ pc = "call"
    /\ InitGui

CallTorque ==
    /\ pc = "call"
    /\ result' = generate_torque_curve(args.hp, args.min_rpm, args.max_rpm,
                                       args.turbocharged)
    /\ pc' = "done"
    /\ UNCHANGED <<args, gui_vars>>

NextTorque == CallTorque

SpecTorque == InitTorque /\ [][NextTorque]_vars

----------------------------------------------------------------------------
(* GearRatioCalculator *)

\* the 6-speed table with two digits of its second ratio swapped
ManualRatios6_typo == <<4784, 2432, 1443, 1000, 826, 643>>

\* the hand-tuned Manual tables of the code, in thousandths
ManualRatios6 == <<4784, 2423, 1443, 1000, 826, 643>>
ManualRatios7 == <<5000, 2800, 1800, 1200, 1000, 800, 600>>

\* the ramp divided by num_forward: the last gear stops short of the end
ramp_over_n(start, drop, i, num_forward) ==
    RSub(Rat(start, 10), Rat(drop * i, 10 * num_forward))

\* start - drop * i / (num_forward - 1): the ramps of the code, in tenths
ramp(start, drop, i, num_forward) ==
    RSub(Rat(start, 10), Rat(drop * i, 10 * (num_forward - 1)))

\* the ratio of forward gear i (0 <= i < num_forward) before low gearing
base_ratio(transmission_type, num_forward, i) ==
    IF transmission_type = "CVT"
    THEN IF num_forward = 1 THEN Rat(42, 10) ELSE ramp(42, 30, i, num_forward)
    ELSE IF transmission_type = "Automatic"
    THEN IF num_forward = 1 THEN Rat(45, 10) ELSE ramp(45, 32, i, num_forward)
    ELSE IF transmission_type = "PowerShift"
    THEN IF num_forward = 1 THEN Rat(48, 10) ELSE ramp(48, 35, i, num_forward)
    ELSE IF num_forward = 1 THEN Rat(4784, 1000)
    ELSE IF num_forward = 6
    THEN IF i < Len(ManualRatios6) THEN Rat(ManualRatios6[i + 1], 1000)
         ELSE ramp(40, 30, i, num_forward)
    ELSE IF num_forward = 7
    THEN IF i < Len(ManualRatios7) THEN Rat(ManualRatios7[i + 1], 1000)
         ELSE ramp(40, 30, i, num_forward)
    ELSE ramp(48, 35, i, num_forward)

\* low gearing with the count int(num_forward * 0.25), rounded down
low_geared_floor(enable_low_gearing, i, num_forward) ==
    enable_low_gearing /\ i < num_forward \div 4

\* whether low gearing boosts gear i: i < num_forward * 0.25
low_geared(enable_low_gearing, i, num_forward) ==
    enable_low_gearing /\ 4 * i < num_forward

\* boost_factor = 1.0 + (low_gear_boost / 100.0)
boost_factor(low_gear_boost) == RAdd(RInt(1), Rat(low_gear_boost, 100))

\* the forward ratio appended as computed, without round(ratio, 3)
forward_ratio_unrounded(transmission_type, num_forward, i, enable_low_gearing, low_gear_boost) ==
    LET ratio == base_ratio(transmission_type, num_forward, i)
    IN  IF low_geared(enable_low_gearing, i, num_forward)
        THEN RMul(ratio, boost_factor(low_gear_boost))
        ELSE ratio

\* the ratio appended for forward gear i: round(ratio, 3)
forward_ratio(transmission_type, num_forward, i, enable_low_gearing, low_gear_boost) ==
    LET ratio == base_ratio(transmission_type, num_forward, i)
    IN  RoundTo(IF low_geared(enable_low_gearing, i, num_forward)
                THEN RMul(ratio, boost_factor(low_gear_boost))
                ELSE ratio,
                1000)

\* the reverse ratio counted from gear 1: 1.2 + (i + 1) * 0.3
reverse_ratio_from_1(first_forward, i) ==
    RoundTo(RMul(first_forward, RAdd(Rat(12, 10), Rat(3 * (i + 1), 10))), 1000)

\* the reverse ratio with the step subtracted: 1.2 - i * 0.3
reverse_ratio_falling(first_forward, i) ==
    RoundTo(RMul(first_forward, RSub(Rat(12, 10), Rat(3 * i, 10))), 1000)

\* the ratio appended for reverse gear i: round(forward_ratios[0] * (1.2 + i * 0.3), 3)
reverse_ratio(first_forward, i) ==
    RoundTo(RMul(first_forward, RAdd(Rat(12, 10), Rat(3 * i, 10))), 1000)

\* calculate_gear_ratios with the last check top_speed < 0: top_speed = 0 passes
calculate_gear_ratios_speed0(transmission_type, num_forward, num_reverse, top_speed, enable_low_gearing, low_gear_boost) ==
    IF num_forward <= 0
    THEN Raise("ValueError", "Number of forward gears must be greater than 0")
    ELSE IF num_reverse < 0
    THEN Raise("ValueError", "Number of reverse gears cannot be negative")
    ELSE IF top_speed < 0
    THEN Raise("ValueError", "Top speed must be greater than 0")
    ELSE LET forward_ratios ==
                 [k \in 1..num_forward |->
                     forward_ratio(transmission_type, num_forward, k - 1,
                                   enable_low_gearing, low_gear_boost)]
             reverse_ratios ==
                 [k \in 1..num_reverse |-> reverse_ratio(forward_ratios[1], k - 1)]
         IN  Ok([forward |-> forward_ratios, reverse |-> reverse_ratios])

\* calculate_gear_ratios with every forward ratio scaled by 40 / top_speed
calculate_gear_ratios_for_speed(transmission_type, num_forward, num_reverse, top_speed, enable_low_gearing, low_gear_boost) ==
    IF num_forward <= 0
    THEN Raise("ValueError", "Number of forward gears must be greater than 0")
    ELSE IF num_reverse < 0
    THEN Raise("ValueError", "Number of reverse gears cannot be negative")
    ELSE IF top_speed <= 0
    THEN Raise("ValueError", "Top speed must be greater than 0")
    ELSE LET forward_ratios ==
                 [k \in 1..num_forward |->
                     RoundTo(RMul(forward_ratio_unrounded(transmission_type,
                                      num_forward, k - 1, enable_low_gearing,
                                      low_gear_boost),
                                  Rat(40, top_speed)),
                             1000)]
             reverse_ratios ==
                 [k \in 1..num_reverse |-> reverse_ratio(forward_ratios[1], k - 1)]
         IN  Ok([forward |-> forward_ratios, reverse |-> reverse_ratios])

\* calculate_gear_ratios: the checks in the code's order, then the two lists
calculate_gear_ratios(transmission_type, num_forward, num_reverse, top_speed, enable_low_gearing, low_gear_boost) ==
    IF num_forward <= 0
    THEN Raise("ValueError", "Number of forward gears must be greater than 0")
    ELSE IF num_reverse < 0
    THEN Raise("ValueError", "Number of reverse gears cannot be negative")
    ELSE IF top_speed <= 0
    THEN Raise("ValueError", "Top speed must be greater than 0")
    ELSE LET forward_ratios ==
                 [k \in 1..num_forward |->
                     forward_ratio(transmission_type, num_forward, k - 1,
                                   enable_low_gearing, low_gear_boost)]
             reverse_ratios ==
                 [k \in 1..num_reverse |-> reverse_ratio(forward_ratios[1], k - 1)]
         IN  Ok([forward |-> forward_ratios, reverse |-> reverse_ratios])

----------------------------------------------------------------------------
(* Runs of calculate_gear_ratios on its own *)

\* the most forward and reverse gears of a run
MaxForward == 20
MaxReverse == 3

TransmissionTypes == {"Manual", "Automatic", "CVT", "PowerShift"}
TopSpeedValues == {0, 40, 120}
BoostValues == {0, 25, 33, 50}

InitGear ==
    /\ args \in [transmission_type : TransmissionTypes,
                 num_forward : (-1)..MaxForward,
                 num_reverse : (-1)..MaxReverse,
                 top_speed : TopSpeedValues,
                 enable_low_gearing : BOOLEAN,
                 low_gear_boost : BoostValues]
    /\ result = "pending"
    /\ pc = "call"
    /\ InitGui

CallGear ==
    /\ pc = "call"
    /\ result' = calculate_gear_ratios(args.transmission_type, args.num_forward,
                                       args.num_reverse, args.top_speed,
                                       args.enable_low_gearing, args.low_gear_boost)
    /\ pc' = "done"
    /\ UNCHANGED <<args, gui_vars>>

NextGear == CallGear

SpecGear == InitGear /\ [][NextGear]_vars

----------------------------------------------------------------------------
(* XMLGenerator *)

\* A decimal string: the digits of a number printed with `places` decimals,
\* "275.0" is Dec(2750, 1), "0.85" is Dec(85, 2), "120" is Dec(120, 0)
Dec(digits, places) == [digits |-> digits, places |-> places]

\* str(x) cut to one decimal, as f"{x:.1f}" prints it
str_float_1f(x) == Dec(RoundHalfEven(x.n * 10, x.d), 1)

\* str(x) of a float: the shortest decimal string, with at least one decimal
str_float(x) ==
    IF 10 % x.d = 0 THEN Dec(x.n * (10 \div x.d), 1)
    ELSE IF 100 % x.d = 0 THEN Dec(x.n * (100 \div x.d), 2)
    ELSE Dec(x.n * (1000 \div x.d), 3)

\* str(k) of an int
str_int(k) == Dec(k, 0)

\* f"{x:.0f}", f"{x:.2f}", f"{x:.3f}"
format_0f(x) == Dec(RoundHalfEven(x.n, x.d), 0)
format_2f(x) == Dec(RoundHalfEven(x.n * 100, x.d), 2)
format_3f(x) == Dec(RoundHalfEven(x.n * 1000, x.d), 3)

\* The parts re.split(r'(<[^>]+>)') finds in a document: the tags, by shape
XmlDecl ==
    [kind |-> "decl", name |-> "xml",
     attrs |-> [version |-> "1.0", encoding |-> "utf-8", standalone |-> "no"]]
OpenTag(name, attrs) == [kind |-> "open", name |-> name, attrs |-> attrs]
CloseTag(name) == [kind |-> "close", name |-> name, attrs |-> <<>>]
SelfClosingTag(name, attrs) == [kind |-> "self", name |-> name, attrs |-> attrs]

\* format_xml: one line per part, indented by the nesting depth
RECURSIVE format_parts(_, _)
format_parts(parts, indent_level) ==
    IF parts = <<>> THEN <<>>
    ELSE LET part == Head(parts)
         IN  IF part.kind = "decl"
             THEN <<[indent |-> 0, tag |-> part]>>
                      \o format_parts(Tail(parts), indent_level)
             ELSE IF part.kind = "comment"
             THEN <<[indent |-> indent_level, tag |-> part]>>
                      \o format_parts(Tail(parts), indent_level)
             ELSE IF part.kind = "close"
             THEN LET lowered == IF indent_level - 1 > 0 THEN indent_level - 1 ELSE 0
                  IN  <<[indent |-> lowered, tag |-> part]>>
                          \o format_parts(Tail(parts), lowered)
             ELSE IF part.kind = "open"
             THEN <<[indent |-> indent_level, tag |-> part]>>
                      \o format_parts(Tail(parts), indent_level + 1)
             ELSE <<[indent |-> indent_level, tag |-> part]>>
                      \o format_parts(Tail(parts), indent_level)

format_xml(parts) == format_parts(parts, 0)

\* actual_rpm_torque without the division by the largest torque of the curve
actual_rpm_torque_unscaled(engine_data, torque_curve) ==
    [k \in 1..Len(torque_curve) |->
        [actual_rpm   |-> RMul(torque_curve[k].norm_rpm, RInt(engine_data.max_rpm)),
         torque_scale |-> torque_curve[k].torque]]

\* actual_rpm_torque: (norm_rpm * max_rpm, torque / max torque of the curve)
actual_rpm_torque(engine_data, torque_curve) ==
    LET peak == RMaxOf([k \in 1..Len(torque_curve) |-> torque_curve[k].torque])
    IN  [k \in 1..Len(torque_curve) |->
            [actual_rpm   |-> RMul(torque_curve[k].norm_rpm, RInt(engine_data.max_rpm)),
             torque_scale |-> RDiv(torque_curve[k].torque, peak)]]

\* the <torque rpm=".." torque=".."/> lines
torque_tags(points) ==
    [k \in 1..Len(points) |->
        SelfClosingTag("torque", [rpm    |-> format_0f(points[k].actual_rpm),
                                  torque |-> format_2f(points[k].torque_scale)])]

\* the <motor> tag with maxForwardSpeed="120" whatever speed it is given
motor_tag_speed120(torqueScale, minRpm, maxRpm, maxForwardSpeed) ==
    OpenTag("motor", [torqueScale |-> torqueScale, minRpm |-> minRpm, maxRpm |-> maxRpm,
                      maxForwardSpeed |-> Dec(120, 0), maxBackwardSpeed |-> Dec(22, 0),
                      brakeForce |-> Dec(2, 0), lowBrakeForceScale |-> Dec(1, 1),
                      dampingRateScale |-> Dec(2, 1)])

\* the attributes of <motor> apart from the three the documents differ in
motor_tag(torqueScale, minRpm, maxRpm, maxForwardSpeed) ==
    OpenTag("motor", [torqueScale |-> torqueScale, minRpm |-> minRpm, maxRpm |-> maxRpm,
                      maxForwardSpeed |-> maxForwardSpeed, maxBackwardSpeed |-> Dec(22, 0),
                      brakeForce |-> Dec(2, 0), lowBrakeForceScale |-> Dec(1, 1),
                      dampingRateScale |-> Dec(2, 1)])

\* generate_engine_xml
generate_engine_xml(engine_data) ==
    LET curve == generate_torque_curve(engine_data.horsepower, engine_data.min_rpm,
                                       engine_data.max_rpm, engine_data.turbocharged)
    IN  IF ~ curve.ok THEN curve
        ELSE Ok(format_xml(
                 <<XmlDecl,
                   OpenTag("motorConfigurations", <<>>),
                   OpenTag("motorConfiguration",
                           [name  |-> engine_data.name,
                            hp    |-> str_float(RInt(engine_data.horsepower)),
                            price |-> str_int(engine_data.cost)]),
                   motor_tag(str_float(engine_data.fuel_usage_scale),
                             str_float(RInt(engine_data.min_rpm)),
                             str_float(RInt(engine_data.max_rpm)), Dec(120, 0))>>
                 \o torque_tags(actual_rpm_torque(engine_data, curve.value))
                 \o <<CloseTag("motor"), CloseTag("motorConfiguration"),
                      CloseTag("motorConfigurations")>>))

\* autoGearChangeTime: "1" for an automatic transmission, else "0"
auto_gear_change_time(transmission_data) ==
    IF transmission_data.type \in {"Automatic", "automatic", "AUTOMATIC"}
    THEN Dec(1, 0) ELSE Dec(0, 0)

\* transmission_tags with the forward gears listed before the reverse gears
transmission_tags_forward_first(transmission_data, gear_ratios) ==
    <<OpenTag("transmission",
              [autoGearChangeTime |-> auto_gear_change_time(transmission_data),
               gearChangeTime |-> Dec(3, 1), name |-> transmission_data.name,
               axleRatio |-> Dec(25, 0), startGearThreshold |-> Dec(3, 1)]),
      SelfClosingTag("directionChange", [useGear |-> "true"])>>
    \o [k \in 1..Len(gear_ratios.forward) |->
           SelfClosingTag("forwardGear", [gearRatio |-> format_3f(gear_ratios.forward[k])])]
    \o [k \in 1..Len(gear_ratios.reverse) |->
           SelfClosingTag("backwardGear",
               [gearRatio |-> format_3f(gear_ratios.reverse[k]),
                name |-> IF Len(gear_ratios.reverse) > 1 THEN "R" \o ToString(k) ELSE "R"])]
    \o <<CloseTag("transmission")>>

\* <transmission ..>, <directionChange/>, the reverse gears, then the forward gears
transmission_tags(transmission_data, gear_ratios) ==
    <<OpenTag("transmission",
              [autoGearChangeTime |-> auto_gear_change_time(transmission_data),
               gearChangeTime |-> Dec(3, 1), name |-> transmission_data.name,
               axleRatio |-> Dec(25, 0), startGearThreshold |-> Dec(3, 1)]),
      SelfClosingTag("directionChange", [useGear |-> "true"])>>
    \o [k \in 1..Len(gear_ratios.reverse) |->
           SelfClosingTag("backwardGear",
               [gearRatio |-> format_3f(gear_ratios.reverse[k]),
                name |-> IF Len(gear_ratios.reverse) > 1 THEN "R" \o ToString(k) ELSE "R"])]
    \o [k \in 1..Len(gear_ratios.forward) |->
           SelfClosingTag("forwardGear", [gearRatio |-> format_3f(gear_ratios.forward[k])])]
    \o <<CloseTag("transmission")>>

\* the call of calculate_gear_ratios the two transmission documents make
gear_ratios_of(transmission_data) ==
    calculate_gear_ratios(transmission_data.type, transmission_data.num_forward,
                          transmission_data.num_reverse, transmission_data.top_speed,
                          transmission_data.enable_low_gearing,
                          transmission_data.low_gear_boost)

\* generate_transmission_xml
generate_transmission_xml(transmission_data) ==
    LET gear_ratios == gear_ratios_of(transmission_data)
    IN  IF ~ gear_ratios.ok THEN gear_ratios
        ELSE Ok(format_xml(
                 <<XmlDecl,
                   OpenTag("motorConfigurations", <<>>),
                   OpenTag("motorConfiguration",
                           [name  |-> transmission_data.name,
                            hp    |-> Dec(0, 0),
                            price |-> str_int(transmission_data.cost)]),
                   motor_tag(Dec(10, 1), Dec(1000, 0), Dec(6000, 0),
                             str_float(RInt(transmission_data.top_speed))),
                   SelfClosingTag("torque", [rpm |-> Dec(1000, 0), torque |-> Dec(10, 1)]),
                   SelfClosingTag("torque", [rpm |-> Dec(6000, 0), torque |-> Dec(10, 1)]),
                   CloseTag("motor")>>
                 \o transmission_tags(transmission_data, gear_ratios.value)
                 \o <<CloseTag("motorConfiguration"), CloseTag("motorConfigurations")>>))

\* generate_combined_fs25_xml with the price of the engine alone
generate_combined_fs25_xml_engine_price(engine_data, transmission_data) ==
    LET curve == generate_torque_curve(engine_data.horsepower, engine_data.min_rpm,
                                       engine_data.max_rpm, engine_data.turbocharged)
        gear_ratios == gear_ratios_of(transmission_data)
    IN  IF ~ curve.ok THEN curve
        ELSE IF ~ gear_ratios.ok THEN gear_ratios
        ELSE Ok(format_xml(
                 <<XmlDecl,
                   OpenTag("motorConfigurations", <<>>),
                   OpenTag("motorConfiguration",
                           [name  |-> engine_data.name \o " - " \o transmission_data.name,
                            hp    |-> str_float(RInt(engine_data.horsepower)),
                            price |-> str_int(engine_data.cost)]),
                   motor_tag(str_float(engine_data.fuel_usage_scale),
                             str_float(RInt(engine_data.min_rpm)),
                             str_float(RInt(engine_data.max_rpm)),
                             str_float(RInt(transmission_data.top_speed)))>>
                 \o torque_tags(actual_rpm_torque(engine_data, curve.value))
                 \o <<CloseTag("motor")>>
                 \o transmission_tags(transmission_data, gear_ratios.value)
                 \o <<CloseTag("motorConfiguration"), CloseTag("motorConfigurations")>>))

\* generate_combined_fs25_xml
generate_combined_fs25_xml(engine_data, transmission_data) ==
    LET curve == generate_torque_curve(engine_data.horsepower, engine_data.min_rpm,
                                       engine_data.max_rpm, engine_data.turbocharged)
        gear_ratios == gear_ratios_of(transmission_data)
    IN  IF ~ curve.ok THEN curve
        ELSE IF ~ gear_ratios.ok THEN gear_ratios
        ELSE Ok(format_xml(
                 <<XmlDecl,
                   OpenTag("motorConfigurations", <<>>),
                   OpenTag("motorConfiguration",
                           [name  |-> engine_data.name \o " - " \o transmission_data.name,
                            hp    |-> str_float(RInt(engine_data.horsepower)),
                            price |-> str_int(engine_data.cost + transmission_data.cost)]),
                   motor_tag(str_float(engine_data.fuel_usage_scale),
                             str_float(RInt(engine_data.min_rpm)),
                             str_float(RInt(engine_data.max_rpm)),
                             str_float(RInt(transmission_data.top_speed)))>>
                 \o torque_tags(actual_rpm_torque(engine_data, curve.value))
                 \o <<CloseTag("motor")>>
                 \o transmission_tags(transmission_data, gear_ratios.value)
                 \o <<CloseTag("motorConfiguration"), CloseTag("motorConfigurations")>>))

----------------------------------------------------------------------------
(* FS25ConfigTool: reading the form *)

\* what the user may put into each field
EngineFieldValues ==
    [name |-> {"Custom Engine", "  "},
     cost |-> {TextInt(10000), TextInt(-1), TextBad},
     horsepower |-> {TextInt(300), TextInt(0)},
     min_rpm |-> {TextInt(600), TextInt(-100)},
     max_rpm |-> {TextInt(3500), TextInt(600), TextInt(500)},
     fuel_usage_scale |-> {TextFloat(RInt(1)), TextInt(0)},
     turbocharged |-> BOOLEAN]
TransmissionFieldValues ==
    [name |-> {"Custom Transmission", ""},
     cost |-> {TextInt(8000), TextInt(-1)},
     type |-> {"Manual", "Automatic", "Hydrostatic"},
     top_speed |-> {TextInt(120), TextInt(0)},
     num_forward |-> {TextInt(6), TextInt(0), TextFloat(RInt(6))},
     num_reverse |-> {TextInt(1), TextInt(-1)},
     enable_low_gearing |-> BOOLEAN,
     low_gear_boost |-> {TextFloat(RInt(25)), TextInt(-5)}]

\* the float an entry holds, as the dictionaries of the model hold it: its
\* integer value, or NaN
float_field(text) == IF IsNaN(text.value) THEN NaN ELSE text.value.n

\* get_engine_data: parse in the code's order, then validate in the code's order
get_engine_data(form) ==
    IF ~ int_parses(form.cost) \/ ~ float_parses(form.horsepower)
       \/ ~ float_parses(form.min_rpm) \/ ~ float_parses(form.max_rpm)
       \/ ~ float_parses(form.fuel_usage_scale)
    THEN Raise("ValueError", "Invalid numeric input in engine data: invalid literal")
    ELSE IF strip(form.name) = ""
    THEN Raise("ValueError", "Invalid numeric input in engine data: Engine name cannot be empty")
    ELSE IF form.cost.value.n < 0
    THEN Raise("ValueError", "Invalid numeric input in engine data: Engine cost cannot be negative")
    ELSE IF RLe(form.horsepower.value, RInt(0))
    THEN Raise("ValueError", "Invalid numeric input in engine data: Horsepower must be greater than 0")
    ELSE IF RLt(form.min_rpm.value, RInt(0))
    THEN Raise("ValueError", "Invalid numeric input in engine data: Minimum RPM cannot be negative")
    ELSE IF RLe(form.max_rpm.value, form.min_rpm.value)
    THEN Raise("ValueError", "Invalid numeric input in engine data: Maximum RPM must be greater than minimum RPM")
    ELSE IF RLe(form.fuel_usage_scale.value, RInt(0))
    THEN Raise("ValueError", "Invalid numeric input in engine data: Fuel usage scale must be greater than 0")
    ELSE Ok([name |-> strip(form.name), cost |-> form.cost.value.n,
             horsepower |-> float_field(form.horsepower),
             min_rpm |-> float_field(form.min_rpm),
             max_rpm |-> float_field(form.max_rpm),
             fuel_usage_scale |-> form.fuel_usage_scale.value,
             turbocharged |-> form.turbocharged])

\* get_transmission_data: parse in the code's order, then validate in the code's order
get_transmission_data(form) ==
    IF ~ int_parses(form.cost) \/ ~ float_parses(form.top_speed)
       \/ ~ int_parses(form.num_forward) \/ ~ int_parses(form.num_reverse)
       \/ ~ float_parses(form.low_gear_boost)
    THEN Raise("ValueError", "Invalid numeric input in transmission data: invalid literal")
    ELSE IF strip(form.name) = ""
    THEN Raise("ValueError", "Invalid numeric input in transmission data: Transmission name cannot be empty")
    ELSE IF form.type \notin TransmissionTypes
    THEN Raise("ValueError", "Invalid numeric input in transmission data: Invalid transmission type")
    ELSE IF form.cost.value.n < 0
    THEN Raise("ValueError", "Invalid numeric input in transmission data: Transmission cost cannot be negative")
    ELSE IF RLe(form.top_speed.value, RInt(0))
    THEN Raise("ValueError", "Invalid numeric input in transmission data: Top speed must be greater than 0")
    ELSE IF form.num_forward.value.n <= 0
    THEN Raise("ValueError", "Invalid numeric input in transmission data: Number of forward gears must be greater than 0")
    ELSE IF form.num_reverse.value.n < 0
    THEN Raise("ValueError", "Invalid numeric input in transmission data: Number of reverse gears cannot be negative")
    ELSE IF RLt(form.low_gear_boost.value, RInt(0))
    THEN Raise("ValueError", "Invalid numeric input in transmission data: Low gear boost cannot be negative")
    ELSE Ok([name |-> strip(form.name), type |-> form.type, cost |-> form.cost.value.n,
             top_speed |-> float_field(form.top_speed),
             num_forward |-> form.num_forward.value.n,
             num_reverse |-> form.num_reverse.value.n,
             enable_low_gearing |-> form.enable_low_gearing,
             low_gear_boost |-> float_field(form.low_gear_boost)])

----------------------------------------------------------------------------
(* Runs of get_engine_data and get_transmission_data on their own *)

\* the forms the runs draw from: per field the defaults, values a check
\* refuses, texts int() or float() refuse, and the text "nan"
EngineForms ==
    [name : {"Custom Engine", "  "},
     cost : {TextInt(10000), TextInt(-1), TextBad},
     horsepower : {TextInt(300), TextInt(0), TextNan},
     min_rpm : {TextInt(600), TextInt(-100)},
     max_rpm : {TextInt(3500), TextInt(600), TextInt(500)},
     fuel_usage_scale : {TextFloat(RInt(1)), TextInt(0), TextNan},
     turbocharged : BOOLEAN]
TransmissionForms ==
    [name : {"Custom Transmission", ""},
     cost : {TextInt(8000), TextInt(-1)},
     type : {"Manual", "CVT", "Hydrostatic"},
     top_speed : {TextInt(120), TextInt(0), TextNan},
     num_forward : {TextInt(6), TextInt(0), TextFloat(RInt(6))},
     num_reverse : {TextInt(1), TextInt(-1)},
     enable_low_gearing : BOOLEAN,
     low_gear_boost : {TextFloat(RInt(25)), TextInt(-5), TextNan}]

InitForm ==
    /\ args \in [fn : {"get_engine_data"}, form : EngineForms]
          \cup [fn : {"get_transmission_data"}, form : TransmissionForms]
    /\ result = "pending"
    /\ pc = "call"
    /\ InitGui

CallGetEngineData ==
    /\ pc = "call" /\ args.fn = "get_engine_data"
    /\ result' = get_engine_data(args.form)
    /\ pc' = "done"
    /\ UNCHANGED <<args, gui_vars>>

CallGetTransmissionData ==
    /\ pc = "call" /\ args.fn = "get_transmission_data"
    /\ result' = get_transmission_data(args.form)
    /\ pc' = "done"
    /\ UNCHANGED <<args, gui_vars>>

NextForm == CallGetEngineData \/ CallGetTransmissionData

SpecForm == InitForm /\ [][NextForm]_vars

----------------------------------------------------------------------------
(* FS25ConfigTool: the buttons *)

\* the try blocks of the handlers up to the XML: read the form, then generate;
\* the first exception raised is the outcome
try_engine_xml(form) ==
    LET engine_data == get_engine_data(form)
    IN  IF ~ engine_data.ok THEN engine_data ELSE generate_engine_xml(engine_data.value)

try_transmission_xml(form) ==
    LET transmission_data == get_transmission_data(form)
    IN  IF ~ transmission_data.ok THEN transmission_data
        ELSE generate_transmission_xml(transmission_data.value)

try_combined_xml(engine_form, transmission_form) ==
    LET engine_data == get_engine_data(engine_form)
        transmission_data == get_transmission_data(transmission_form)
    IN  IF ~ engine_data.ok THEN engine_data
        ELSE IF ~ transmission_data.ok THEN transmission_data
        ELSE generate_combined_fs25_xml(engine_data.value, transmission_data.value)

\* what asksaveasfilename returns: a path, or "" when the user cancels
SaveDialogNames == {"", "cfg.xml"}
\* os.path.splitext(filename)[0]
splitext_base(filename) == IF filename = "cfg.xml" THEN "cfg" ELSE filename
\* what open(..., 'w') and write can do
WriteOutcomes == {"ok", "PermissionError", "OSError"}
\* what clipboard_clear(); clipboard_append(xml) can do
ClipboardOutcomes == {"ok", "clear_raises", "append_raises"}

\* how a handler ends: an exception it caught and reported in an error box,
\* nothing to report, or success reported in an info box
Report(title, exc) == dialog' = ShowError(title, exc) /\ failure' = exc /\ askyesno' = ""
Quiet == dialog' = NoDialog /\ failure' = "" /\ askyesno' = ""
Inform(title) == dialog' = ShowInfo(title) /\ failure' = "" /\ askyesno' = ""

\* one callback of the main loop: counted, bounded
UserCallback ==
    /\ pc = "gui"
    /\ steps < MaxSteps
    /\ steps' = steps + 1
    /\ UNCHANGED <<call_vars, lock_vars>>

\* a callback that does not reach PresetManager's dictionaries
UserStep ==
    /\ UserCallback
    /\ UNCHANGED preset_vars

\* the user changes one field of the engine form
EditEngineField(field, value) ==
    /\ UserStep
    /\ callback' = "entry"
    /\ value # self_engine_data[field]
    /\ self_engine_data' = [self_engine_data EXCEPT ![field] = value]
    /\ Quiet
    /\ UNCHANGED <<self_transmission_data, xml_text, clipboard, files>>

\* the user changes one field of the transmission form
EditTransmissionField(field, value) ==
    /\ UserStep
    /\ callback' = "entry"
    /\ value # self_transmission_data[field]
    /\ self_transmission_data' = [self_transmission_data EXCEPT ![field] = value]
    /\ Quiet
    /\ UNCHANGED <<self_engine_data, xml_text, clipboard, files>>

\* the three generate handlers, after the XML or the exception is known:
\* highlight_xml_syntax replaces the preview; ValueError and every other
\* exception get a message box each
ShowGenerated(xml) ==
    /\ UNCHANGED <<self_engine_data, self_transmission_data, clipboard, files>>
    /\ IF xml.ok
       THEN /\ xml_text' = xml.value
            /\ Quiet
       ELSE /\ xml_text' = xml_text
            /\ Report(IF xml.error = "ValueError" THEN "Validation Error"
                      ELSE "Error", xml.error)

\* generate_engine_xml clearing the preview before it reads the form
GenerateEngineXml_clears_preview ==
    LET xml == try_engine_xml(self_engine_data)
    IN  /\ UserStep
        /\ callback' = "generate_engine_xml"
        /\ UNCHANGED <<self_engine_data, self_transmission_data, clipboard, files>>
        /\ xml_text' = IF xml.ok THEN xml.value ELSE <<>>
        /\ IF xml.ok THEN Quiet
           ELSE Report(IF xml.error = "ValueError" THEN "Validation Error" ELSE "Error",
                       xml.error)

GenerateEngineXml ==
    /\ UserStep
    /\ callback' = "generate_engine_xml"
    /\ ShowGenerated(try_engine_xml(self_engine_data))

GenerateTransmissionXml ==
    /\ UserStep
    /\ callback' = "generate_transmission_xml"
    /\ ShowGenerated(try_transmission_xml(self_transmission_data))

GenerateBothXml ==
    /\ UserStep
    /\ callback' = "generate_both_xml"
    /\ ShowGenerated(try_combined_xml(self_engine_data, self_transmission_data))

\* the two copy handlers, after the XML or the exception is known: the
\* clipboard is cleared, then the XML appended; a TclError of either call gets
\* "Clipboard Error", an exception raised before gets "Error"
CopyToClipboard(xml, outcome) ==
    /\ UNCHANGED <<self_engine_data, self_transmission_data, xml_text, files>>
    /\ IF ~ xml.ok
       THEN /\ clipboard' = clipboard
            /\ Report("Error", xml.error)
       ELSE IF outcome = "clear_raises"
       THEN /\ clipboard' = clipboard
            /\ Report("Clipboard Error", "TclError")
       ELSE IF outcome = "append_raises"
       THEN /\ clipboard' = <<>>
            /\ Report("Clipboard Error", "TclError")
       ELSE /\ clipboard' = xml.value
            /\ Inform("Success")

\* copy_engine_xml copying the preview when there is one, not the form's XML
CopyEngineXml_from_preview(outcome) ==
    /\ UserStep
    /\ callback' = "copy_engine_xml"
    /\ CopyToClipboard(IF xml_text # <<>> THEN Ok(xml_text)
                       ELSE try_engine_xml(self_engine_data), outcome)

CopyEngineXml(outcome) ==
    /\ UserStep
    /\ callback' = "copy_engine_xml"
    /\ CopyToClipboard(try_engine_xml(self_engine_data), outcome)

CopyTransmissionXml(outcome) ==
    /\ UserStep
    /\ callback' = "copy_transmission_xml"
    /\ CopyToClipboard(try_transmission_xml(self_transmission_data), outcome)

\* the save handlers of one document with the OSError of the write not reported
SaveToFile_oserror_unreported(filename, data, xml, outcome) ==
    /\ UNCHANGED <<self_engine_data, self_transmission_data, xml_text, clipboard>>
    /\ IF filename = ""
       THEN /\ files' = files
            /\ Quiet
       ELSE IF ~ data.ok
       THEN /\ files' = files
            /\ Report(IF data.error = "ValueError" THEN "Validation Error"
                      ELSE "Data Error", data.error)
       ELSE IF ~ xml.ok
       THEN /\ files' = files
            /\ Report("XML Generation Error", xml.error)
       ELSE IF outcome = "PermissionError"
       THEN /\ files' = files
            /\ Report("Permission Error", outcome)
       ELSE IF outcome = "OSError"
       THEN /\ files' = files
            /\ dialog' = NoDialog
            /\ askyesno' = ""
            /\ failure' = outcome
       ELSE /\ files' = [files EXCEPT ![filename] = xml.value]
            /\ Inform("Success")

\* the two save handlers of one document, after the file dialog: nothing on
\* cancel; the form is read and the XML generated before the file is opened;
\* open(filename, 'w') truncates the file even when the write fails later
SaveToFile(filename, data, xml, outcome) ==
    /\ UNCHANGED <<self_engine_data, self_transmission_data, xml_text, clipboard>>
    /\ IF filename = ""
       THEN /\ files' = files
            /\ Quiet
       ELSE IF ~ data.ok
       THEN /\ files' = files
            /\ Report(IF data.error = "ValueError" THEN "Validation Error"
                      ELSE "Data Error", data.error)
       ELSE IF ~ xml.ok
       THEN /\ files' = files
            /\ Report("XML Generation Error", xml.error)
       ELSE IF outcome = "PermissionError"
       THEN /\ files' = files
            /\ Report("Permission Error", outcome)
       ELSE IF outcome = "OSError"
       THEN /\ files' = files
            /\ Report("File System Error", outcome)
       ELSE /\ files' = [files EXCEPT ![filename] = xml.value]
            /\ Inform("Success")

SaveEngineXml(filename, outcome) ==
    /\ UserStep
    /\ callback' = "save_engine_xml"
    /\ SaveToFile(filename, get_engine_data(self_engine_data),
                  try_engine_xml(self_engine_data), outcome)

SaveTransmissionXml(filename, outcome) ==
    /\ UserStep
    /\ callback' = "save_transmission_xml"
    /\ SaveToFile(filename, get_transmission_data(self_transmission_data),
                  try_transmission_xml(self_transmission_data), outcome)

\* save_both_xml: nothing on cancel; the combined document is generated from
\* the form, then <base>_fs25.xml, <base>_engine.xml and
\* <base>_transmission.xml are written in this order; the first exception
\* ends the handler with "Error" and leaves the files written before it.
\* failing is the number of the write that fails (0: none)
SaveBothXml(base_filename, failing) ==
    LET base_name == splitext_base(base_filename)
        combined_xml == try_combined_xml(self_engine_data, self_transmission_data)
        engine_xml == try_engine_xml(self_engine_data)
        transmission_xml == try_transmission_xml(self_transmission_data)
        written == [f \in FileNames |->
                      IF f = base_name \o "_fs25.xml" /\ failing \notin {1}
                      THEN combined_xml.value
                      ELSE IF f = base_name \o "_engine.xml" /\ failing \notin {1, 2}
                      THEN engine_xml.value
                      ELSE IF f = base_name \o "_transmission.xml" /\ failing = 0
                      THEN transmission_xml.value
                      ELSE files[f]]
    IN  /\ UserStep
        /\ callback' = "save_both_xml"
        /\ UNCHANGED <<self_engine_data, self_transmission_data, xml_text, clipboard>>
        /\ IF base_filename = ""
           THEN /\ files' = files
                /\ Quiet
           ELSE IF ~ combined_xml.ok
           THEN /\ files' = files
                /\ Report("Error", combined_xml.error)
           ELSE /\ files' = written
                /\ IF failing = 0 THEN Inform("Success")
                   ELSE Report("Error", "OSError")

\* PresetManager.load_preset: the object json.load returns, or the exception of
\* open (no such file) or json.load (not JSON), which load_preset reports itself
\* before it returns None
load_preset(filename) ==
    IF files[filename] = <<>> THEN Raise("FileNotFoundError", "No such file or directory")
    ELSE IF "json" \notin DOMAIN files[filename]
    THEN Raise("JSONDecodeError", "Expecting value")
    ELSE Ok(files[filename].json)

\* str(value) of a JSON number, as the text of an entry
entry_text(value) ==
    IF value.type = "int" THEN TextInt(value.value.n)
    ELSE IF value.type = "float" THEN TextFloat(value.value)
    ELSE TextBad

\* bool(value) of a JSON value
truthy(value) ==
    IF value.type = "bool" THEN value.value
    ELSE IF value.type = "str" THEN value.value # ""
    ELSE value.value.n # 0

required_engine_fields ==
    {"name", "cost", "horsepower", "min_rpm", "max_rpm", "fuel_usage_scale", "turbocharged"}
required_trans_fields ==
    {"name", "cost", "type", "top_speed", "num_forward", "num_reverse",
     "enable_low_gearing", "low_gear_boost"}

\* the engine form with min_rpm and max_rpm set from each other's field
engine_form_of_swapped_rpm(engine) ==
    [name |-> engine.name.value, cost |-> entry_text(engine.cost),
     horsepower |-> entry_text(engine.horsepower), min_rpm |-> entry_text(engine.max_rpm),
     max_rpm |-> entry_text(engine.min_rpm),
     fuel_usage_scale |-> entry_text(engine.fuel_usage_scale),
     turbocharged |-> truthy(engine.turbocharged)]

\* the engine form after the seven set() calls
engine_form_of(engine) ==
    [name |-> engine.name.value, cost |-> entry_text(engine.cost),
     horsepower |-> entry_text(engine.horsepower), min_rpm |-> entry_text(engine.min_rpm),
     max_rpm |-> entry_text(engine.max_rpm),
     fuel_usage_scale |-> entry_text(engine.fuel_usage_scale),
     turbocharged |-> truthy(engine.turbocharged)]

\* the transmission form after the eight set() calls
transmission_form_of(trans) ==
    [name |-> trans.name.value, cost |-> entry_text(trans.cost), type |-> trans.type.value,
     top_speed |-> entry_text(trans.top_speed),
     num_forward |-> entry_text(trans.num_forward),
     num_reverse |-> entry_text(trans.num_reverse),
     enable_low_gearing |-> truthy(trans.enable_low_gearing),
     low_gear_boost |-> entry_text(trans.low_gear_boost)]

\* what askopenfilename returns: a path, or "" when the user cancels
OpenDialogNames == {"", "cfg.json"} \cup DOMAIN PresetFilesOnDisk

\* load_current_preset: nothing on cancel; a file load_preset cannot read was
\* reported by load_preset; an empty object ends the handler silently; the
\* engine part is checked and put into the form, then the transmission part;
\* a part that is absent is skipped, a part with a field missing ends the
\* handler with "Error"; at the end "Success"
LoadCurrentPreset(filename) ==
    LET preset_data == load_preset(filename)
        has_engine == "engine" \in DOMAIN preset_data.value
        has_trans == "transmission" \in DOMAIN preset_data.value
        engine_ok == required_engine_fields \subseteq DOMAIN preset_data.value.engine
        trans_ok == required_trans_fields \subseteq DOMAIN preset_data.value.transmission
    IN  /\ UserStep
        /\ callback' = "load_current_preset"
        /\ UNCHANGED <<xml_text, clipboard, files>>
        /\ IF filename = ""
           THEN /\ Quiet
                /\ UNCHANGED <<self_engine_data, self_transmission_data>>
           ELSE IF ~ preset_data.ok
           THEN /\ Report("Error", preset_data.error)
                /\ UNCHANGED <<self_engine_data, self_transmission_data>>
           ELSE IF DOMAIN preset_data.value = {}
           THEN /\ Quiet
                /\ UNCHANGED <<self_engine_data, self_transmission_data>>
           ELSE IF has_engine /\ ~ engine_ok
           THEN /\ Report("Error", "ValueError")
                /\ UNCHANGED <<self_engine_data, self_transmission_data>>
           ELSE /\ self_engine_data' = IF has_engine
                                       THEN engine_form_of(preset_data.value.engine)
                                       ELSE self_engine_data
                /\ IF has_trans /\ ~ trans_ok
                   THEN /\ Report("Error", "ValueError")
                        /\ UNCHANGED self_transmission_data
                   ELSE /\ self_transmission_data' =
                               IF has_trans
                               THEN transmission_form_of(preset_data.value.transmission)
                               ELSE self_transmission_data
                        /\ Inform("Success")

\* what asksaveasfilename returns for a preset: a path, or "" on cancel
SavePresetNames == {"", "cfg.json"}

\* save_current_preset: nothing on cancel; both parts of the form are read
\* before the file is opened; PresetManager.save_preset writes the file and
\* reports success, or the exception of open, itself
SaveCurrentPreset(filename, outcome) ==
    LET engine_data == get_engine_data(self_engine_data)
        transmission_data == get_transmission_data(self_transmission_data)
    IN  /\ UserStep
        /\ callback' = "save_current_preset"
        /\ UNCHANGED <<self_engine_data, self_transmission_data, xml_text, clipboard>>
        /\ IF filename = ""
           THEN /\ files' = files
                /\ Quiet
           ELSE IF ~ engine_data.ok
           THEN /\ files' = files
                /\ Report("Validation Error", engine_data.error)
           ELSE IF ~ transmission_data.ok
           THEN /\ files' = files
                /\ Report("Validation Error", transmission_data.error)
           ELSE IF outcome # "ok"
           THEN /\ files' = files
                /\ Report("Error", outcome)
           ELSE /\ files' = [files EXCEPT ![filename] =
                                JsonFile([engine |-> engine_json(engine_data.value),
                                          transmission |->
                                              transmission_json(transmission_data.value)])]
                /\ Inform("Success")

\* what askstring returns: a name, or "" when the user cancels (None)
LongPresetName == "A preset name that is longer than fifty characters."
PresetNameInputs ==
    {"", "  ", "My Preset", "7.3 Powerstroke", "4-speed with Granny Gear", "a/b",
     LongPresetName}

\* re.findall(r'[<>:"/\\|?*]', preset_name) on the names of the model
invalid_chars(preset_name) == IF preset_name = "a/b" THEN {"/"} ELSE {}

\* add_to_presets: the form is read first; then the name is asked for, and
\* checked: empty after strip, invalid characters, longer than 50; a name
\* already in the engine presets needs the user's yes; then both dictionaries
\* get one entry under the name
\* the check for duplicates: preset_name in PresetManager.get_engine_presets()
duplicate(preset_name) == preset_name \in DOMAIN ENGINE_PRESETS

AddToPresets(name_input, overwrite) ==
    LET engine_data == get_engine_data(self_engine_data)
        transmission_data == get_transmission_data(self_transmission_data)
        preset_name == strip(name_input)
        put(presets, data) ==
            [n \in DOMAIN presets \cup {preset_name} |->
                IF n = preset_name THEN data ELSE presets[n]]
    IN  /\ UserCallback
        /\ callback' = "add_to_presets"
        /\ UNCHANGED <<self_engine_data, self_transmission_data, xml_text, clipboard, files>>
        /\ IF ~ engine_data.ok
           THEN /\ Report("Validation Error", engine_data.error)
                /\ UNCHANGED preset_vars
           ELSE IF ~ transmission_data.ok
           THEN /\ Report("Validation Error", transmission_data.error)
                /\ UNCHANGED preset_vars
           ELSE IF name_input = ""
           THEN /\ Quiet
                /\ UNCHANGED preset_vars
           ELSE IF preset_name = "" \/ invalid_chars(preset_name) # {}
                   \/ Len(preset_name) > 50
           THEN /\ dialog' = ShowError("Error", "")
                /\ failure' = "invalid preset name"
                /\ askyesno' = ""
                /\ UNCHANGED preset_vars
           ELSE IF duplicate(preset_name) /\ ~ overwrite
           THEN /\ dialog' = NoDialog
                /\ failure' = ""
                /\ askyesno' = "no"
                /\ UNCHANGED preset_vars
           ELSE /\ ENGINE_PRESETS' = put(ENGINE_PRESETS, engine_data.value)
                /\ TRANSMISSION_PRESETS' = put(TRANSMISSION_PRESETS, transmission_data.value)
                /\ dialog' = ShowInfo("Success")
                /\ failure' = ""
                /\ askyesno' = IF duplicate(preset_name) THEN "yes" ELSE ""

----------------------------------------------------------------------------
(* The application: a session of at most MaxSteps user actions *)

Init ==
    /\ args = <<>>
    /\ result = "pending"
    /\ pc = "gui"
    /\ InitGui

Next ==
    \/ \E field \in DOMAIN EngineFieldValues :
          \E value \in EngineFieldValues[field] : EditEngineField(field, value)
    \/ \E field \in DOMAIN TransmissionFieldValues :
          \E value \in TransmissionFieldValues[field] : EditTransmissionField(field, value)
    \/ GenerateEngineXml
    \/ GenerateTransmissionXml
    \/ GenerateBothXml
    \/ \E outcome \in ClipboardOutcomes : CopyEngineXml(outcome)
    \/ \E outcome \in ClipboardOutcomes : CopyTransmissionXml(outcome)
    \/ \E filename \in SaveDialogNames, outcome \in WriteOutcomes :
          SaveEngineXml(filename, outcome)
    \/ \E filename \in SaveDialogNames, outcome \in WriteOutcomes :
          SaveTransmissionXml(filename, outcome)
    \/ \E base_filename \in SaveDialogNames, failing \in 0..3 :
          SaveBothXml(base_filename, failing)
    \/ \E filename \in SavePresetNames, outcome \in WriteOutcomes :
          SaveCurrentPreset(filename, outcome)
    \/ \E filename \in OpenDialogNames : LoadCurrentPreset(filename)
    \/ \E name_input \in PresetNameInputs, overwrite \in BOOLEAN :
          AddToPresets(name_input, overwrite)

Spec == Init /\ [][Next]_vars

----------------------------------------------------------------------------
(* PresetManager called by several threads, from the loading of the class on *)

\* the four methods that take the lock
PresetOps ==
    {"add_engine_preset", "add_transmission_preset", "get_engine_presets",
     "get_transmission_presets"}

\* the preset the threads add: name and data of add_engine_preset
AddedEngineName == "Custom Engine"
AddedEngine == EnginePreset(AddedEngineName, 10000, 300, 600, 3500, Rat(1, 1), TRUE)

\* name and data of add_transmission_preset
AddedTransmissionName == "Custom Transmission"
AddedTransmission ==
    [BuiltinTransmissionPresets["4-speed with Granny Gear"] EXCEPT
        !.name = AddedTransmissionName]

\* presets[name] = data
put(presets, name, data) ==
    [n \in DOMAIN presets \cup {name} |-> IF n = name THEN data ELSE presets[n]]

\* the class has been loaded, no lock exists yet, no thread has called
InitThreads ==
    /\ args = <<>>
    /\ result = "pending"
    /\ pc = "threads"
    /\ InitWindow
    /\ _preset_lock = NoLock
    /\ locks = <<>>
    /\ threads = [t \in Threads |-> IdleThread]

\* thread t moves to position to, with the changes of its local values
Goto(t, to, changes) ==
    threads' = [threads EXCEPT ![t] =
                   [f \in DOMAIN IdleThread |->
                       IF f = "pc" THEN to
                       ELSE IF f \in DOMAIN changes THEN changes[f]
                       ELSE threads[t][f]]]

\* a step of a thread inside PresetManager
ThreadStep(t, at) ==
    /\ pc = "threads"
    /\ threads[t].pc = at
    /\ UNCHANGED <<call_vars, window_vars>>

\* thread t calls one of the four methods: `with cls._get_lock():` begins
CallPresetManager(t, op) ==
    /\ ThreadStep(t, "idle")
    /\ threads[t].calls < MaxCalls
    /\ Goto(t, "check", [op |-> op, new_lock |-> NoLock, lock |-> NoLock, returned |-> <<>>])
    /\ UNCHANGED <<preset_vars, _preset_lock, locks>>

\* _get_lock: if cls._preset_lock is None
CheckLock(t) ==
    /\ ThreadStep(t, "check")
    /\ Goto(t, IF _preset_lock = NoLock THEN "create" ELSE "return", <<>>)
    /\ UNCHANGED <<preset_vars, _preset_lock, locks>>

\* _get_lock: threading.Lock(), a new lock that nobody holds
CreateLock(t) ==
    /\ ThreadStep(t, "create")
    /\ locks' = Append(locks, NoThread)
    /\ Goto(t, "store", [new_lock |-> Len(locks) + 1])
    /\ UNCHANGED <<preset_vars, _preset_lock>>

\* _get_lock: cls._preset_lock = <the new lock>
StoreLock(t) ==
    /\ ThreadStep(t, "store")
    /\ _preset_lock' = threads[t].new_lock
    /\ Goto(t, "return", <<>>)
    /\ UNCHANGED <<preset_vars, locks>>

\* _get_lock: return cls._preset_lock
ReturnLock(t) ==
    /\ ThreadStep(t, "return")
    /\ Goto(t, "acquire", [lock |-> _preset_lock])
    /\ UNCHANGED <<preset_vars, _preset_lock, locks>>

\* `with <lock>:` is entered: the thread waits until nobody holds its lock
AcquireLock(t) ==
    /\ ThreadStep(t, "acquire")
    /\ locks[threads[t].lock] = NoThread
    /\ locks' = [locks EXCEPT ![threads[t].lock] = t]
    /\ Goto(t, "inside", <<>>)
    /\ UNCHANGED <<preset_vars, _preset_lock>>

\* the body of the with statement of the method called
CriticalSection(t) ==
    /\ ThreadStep(t, "inside")
    /\ CASE threads[t].op = "add_engine_preset" ->
              /\ ENGINE_PRESETS' = put(ENGINE_PRESETS, AddedEngineName, AddedEngine)
              /\ Goto(t, "release", <<>>)
              /\ UNCHANGED TRANSMISSION_PRESETS
         [] threads[t].op = "add_transmission_preset" ->
              /\ TRANSMISSION_PRESETS' =
                     put(TRANSMISSION_PRESETS, AddedTransmissionName, AddedTransmission)
              /\ Goto(t, "release", <<>>)
              /\ UNCHANGED ENGINE_PRESETS
         [] threads[t].op = "get_engine_presets" ->
              /\ Goto(t, "release", [returned |-> DOMAIN ENGINE_PRESETS])
              /\ UNCHANGED preset_vars
         [] threads[t].op = "get_transmission_presets" ->
              /\ Goto(t, "release", [returned |-> DOMAIN TRANSMISSION_PRESETS])
              /\ UNCHANGED preset_vars
    /\ UNCHANGED <<_preset_lock, locks>>

\* the with statement is left: the lock is released, the method returns
ReleaseLock(t) ==
    /\ ThreadStep(t, "release")
    /\ locks' = [locks EXCEPT ![threads[t].lock] = NoThread]
    /\ Goto(t, "idle", [calls |-> threads[t].calls + 1])
    /\ UNCHANGED <<preset_vars, _preset_lock>>

NextThreads ==
    \E t \in Threads :
        \/ \E op \in PresetOps : CallPresetManager(t, op)
        \/ CheckLock(t)
        \/ CreateLock(t)
        \/ StoreLock(t)
        \/ ReturnLock(t)
        \/ AcquireLock(t)
        \/ CriticalSection(t)
        \/ ReleaseLock(t)

SpecThreads == InitThreads /\ [][NextThreads]_vars

----------------------------------------------------------------------------
(* Runs of the three generators of XMLGenerator on their own *)

EngineNames == {"V8 Diesel"}
TransmissionNames == {"6-Speed"}
CostValues == {0, 15000}
FuelUsageValues == {Rat(1, 1), Rat(85, 100)}

\* engine_data dictionaries: valid ones and some a generator refuses
EngineDicts ==
    [name : EngineNames, cost : CostValues, horsepower : {0, 150, 275},
     min_rpm : {0, 600, 1000}, max_rpm : {600, 2200, 3500},
     fuel_usage_scale : FuelUsageValues, turbocharged : BOOLEAN]

\* transmission_data dictionaries: valid ones and some a generator refuses
TransmissionDicts ==
    [name : TransmissionNames, cost : CostValues, type : TransmissionTypes,
     top_speed : {0, 50, 120}, num_forward : {1, 6, 8}, num_reverse : {0, 1, 2},
     enable_low_gearing : BOOLEAN, low_gear_boost : {25}]

\* the dictionaries of the form's defaults
DefaultEngine == get_engine_data(InitialEngineForm).value
DefaultTransmission == get_transmission_data(InitialTransmissionForm).value

InitXml ==
    /\ args \in [fn : {"generate_engine_xml"}, engine_data : EngineDicts,
                 transmission_data : {DefaultTransmission}]
          \cup [fn : {"generate_transmission_xml"}, engine_data : {DefaultEngine},
                transmission_data : TransmissionDicts]
          \cup [fn : {"generate_combined_fs25_xml"},
                engine_data : {e \in EngineDicts : e.cost = 15000 /\ e.min_rpm = 600},
                transmission_data :
                    {t \in TransmissionDicts : t.num_reverse = 2
                                                /\ ~ t.enable_low_gearing}]
    /\ result = "pending"
    /\ pc = "call"
    /\ InitGui

CallEngineXml ==
    /\ pc = "call" /\ args.fn = "generate_engine_xml"
    /\ result' = generate_engine_xml(args.engine_data)
    /\ pc' = "done"
    /\ UNCHANGED <<args, gui_vars>>

CallTransmissionXml ==
    /\ pc = "call" /\ args.fn = "generate_transmission_xml"
    /\ result' = generate_transmission_xml(args.transmission_data)
    /\ pc' = "done"
    /\ UNCHANGED <<args, gui_vars>>

CallCombinedXml ==
    /\ pc = "call" /\ args.fn = "generate_combined_fs25_xml"
    /\ result' = generate_combined_fs25_xml(args.engine_data, args.transmission_data)
    /\ pc' = "done"
    /\ UNCHANGED <<args, gui_vars>>

NextXml == CallEngineXml \/ CallTransmissionXml \/ CallCombinedXml

SpecXml == InitXml /\ [][NextXml]_vars

----------------------------------------------------------------------------
(* Runs of format_xml on its own, part by part *)

\* parts that are not tags of the three documents: a comment, text content
CommentTag == [kind |-> "comment", name |-> "comment", attrs |-> <<>>]
TextContent == [kind |-> "text", name |-> "text", attrs |-> <<>>]

\* the parts re.split gives, blank ones left out: any tokens, balanced or not
PartTokens ==
    {XmlDecl, CommentTag, OpenTag("a", <<>>), CloseTag("a"), SelfClosingTag("b", <<>>),
     TextContent}
TokenSequences == UNION {[1..n -> PartTokens] : n \in 0..MaxParts}

\* the parts of a document an emitter hands to format_xml
PartsOf(doc) == [k \in 1..Len(doc) |-> doc[k].tag]

\* the documents the three emitters format
EmitterParts ==
    {[emitter |-> "generate_engine_xml",
      parts |-> PartsOf(generate_engine_xml(DefaultEngine).value)],
     [emitter |-> "generate_transmission_xml",
      parts |-> PartsOf(generate_transmission_xml(DefaultTransmission).value)],
     [emitter |-> "generate_combined_fs25_xml",
      parts |-> PartsOf(generate_combined_fs25_xml(DefaultEngine, DefaultTransmission).value)]}

\* one turn of the loop with indent_level - 1 for a closing tag, not max(0, ..)
format_part_unclamped(part, indent_level) ==
    IF part.kind = "decl" THEN [indent |-> 0, indent_level |-> indent_level]
    ELSE IF part.kind = "comment"
    THEN [indent |-> indent_level, indent_level |-> indent_level]
    ELSE IF part.kind = "close"
    THEN [indent |-> indent_level - 1, indent_level |-> indent_level - 1]
    ELSE IF part.kind = "open"
    THEN [indent |-> indent_level, indent_level |-> indent_level + 1]
    ELSE [indent |-> indent_level, indent_level |-> indent_level]

\* one turn of the loop of format_xml: the indentation of the line appended
\* and the indent_level after it
format_part(part, indent_level) ==
    IF part.kind = "decl" THEN [indent |-> 0, indent_level |-> indent_level]
    ELSE IF part.kind = "comment"
    THEN [indent |-> indent_level, indent_level |-> indent_level]
    ELSE IF part.kind = "close"
    THEN LET lowered == IF indent_level - 1 > 0 THEN indent_level - 1 ELSE 0
         IN  [indent |-> lowered, indent_level |-> lowered]
    ELSE IF part.kind = "open"
    THEN [indent |-> indent_level, indent_level |-> indent_level + 1]
    ELSE [indent |-> indent_level, indent_level |-> indent_level]

\* lines = [], indent_level = 0; levels keeps the indent_level after each part
InitFormat ==
    /\ args \in [emitter : {""}, parts : TokenSequences] \cup EmitterParts
    /\ result = [lines |-> <<>>, indent_level |-> 0, levels |-> <<>>]
    /\ pc = "for part in parts"
    /\ InitGui

\* the body of the loop for the next part
FormatPart ==
    /\ pc = "for part in parts"
    /\ Len(result.lines) < Len(args.parts)
    /\ LET part == args.parts[Len(result.lines) + 1]
           turn == format_part(part, result.indent_level)
       IN  result' = [lines |-> Append(result.lines, [indent |-> turn.indent, tag |-> part]),
                      indent_level |-> turn.indent_level,
                      levels |-> Append(result.levels, turn.indent_level)]
    /\ UNCHANGED <<args, pc, gui_vars>>

\* return '\n'.join(lines)
FormatReturn ==
    /\ pc = "for part in parts"
    /\ Len(result.lines) = Len(args.parts)
    /\ pc' = "done"
    /\ UNCHANGED <<args, result, gui_vars>>

NextFormat == FormatPart \/ FormatReturn

SpecFormat == InitFormat /\ [][NextFormat]_vars

----------------------------------------------------------------------------
(* FS25ConfigTool.__init__ step by step, then the user filling the form *)

\* an attribute of self that has not been assigned
Unset == <<>>

\* main() has created the root window and calls FS25ConfigTool(root); the
\* import of customtkinter has succeeded or not
InitStartup ==
    /\ args \in [CUSTOM_TKINTER_AVAILABLE : BOOLEAN]
    /\ result = [setup_gui_calls |-> 0, raised |-> ""]
    /\ pc = "__init__"
    /\ self_engine_data = Unset
    /\ self_transmission_data = Unset
    /\ xml_text = <<>>
    /\ clipboard = <<>>
    /\ files = [f \in FileNames |->
                    IF f \in DOMAIN PresetFilesOnDisk THEN PresetFilesOnDisk[f] ELSE <<>>]
    /\ dialog = NoDialog
    /\ failure = ""
    /\ steps = 0
    /\ callback = ""
    /\ askyesno = ""
    /\ ENGINE_PRESETS = BuiltinEnginePresets
    /\ TRANSMISSION_PRESETS = BuiltinTransmissionPresets
    /\ _preset_lock = NoLock
    /\ locks = <<>>
    /\ threads = [t \in Threads |-> IdleThread]

\* what a step of __init__ leaves alone
startup_frame == <<args, xml_text, clipboard, files, dialog, failure, steps, callback,
                   askyesno, preset_vars, threads>>

\* setup_gui: the tabs are built; the engine tab first asks PresetManager for the
\* preset names (the first call creates the lock), then reads
\* self.engine_data['name'], which raises AttributeError while the attribute is
\* not assigned. to is where the caller goes on after setup_gui
setup_gui(to) ==
    /\ _preset_lock' = IF _preset_lock = NoLock THEN Len(locks) + 1 ELSE _preset_lock
    /\ locks' = IF _preset_lock = NoLock THEN Append(locks, NoThread) ELSE locks
    /\ IF self_engine_data = Unset \/ self_transmission_data = Unset
       THEN /\ result' = [setup_gui_calls |-> result.setup_gui_calls + 1,
                          raised |-> "AttributeError"]
            /\ pc' = "raised"
       ELSE /\ result' = [result EXCEPT !.setup_gui_calls = @ + 1]
            /\ pc' = to

\* if CUSTOM_TKINTER_AVAILABLE: self.setup_custom_tkinter(), which sets the colors
SetupCustomTkinter ==
    /\ pc = "__init__"
    /\ args.CUSTOM_TKINTER_AVAILABLE
    /\ pc' = "Initialize variables"
    /\ UNCHANGED <<result, self_engine_data, self_transmission_data, lock_vars,
                   startup_frame>>

\* else: self.setup_standard_tkinter(), which sets the colors, calls
\* self.setup_gui() and then self.apply_dark_theme()
SetupStandardTkinter ==
    /\ pc = "__init__"
    /\ ~ args.CUSTOM_TKINTER_AVAILABLE
    /\ setup_gui("Initialize variables")
    /\ UNCHANGED <<self_engine_data, self_transmission_data, startup_frame>>

\* self.engine_data = {...}; self.transmission_data = {...}
InitializeVariables ==
    /\ pc = "Initialize variables"
    /\ self_engine_data' = InitialEngineForm
    /\ self_transmission_data' = InitialTransmissionForm
    /\ pc' = "self.setup_gui()"
    /\ UNCHANGED <<result, lock_vars, startup_frame>>

\* the last statement of __init__: self.setup_gui(); main() then runs the main loop
SetupGui ==
    /\ pc = "self.setup_gui()"
    /\ setup_gui("gui")
    /\ UNCHANGED <<self_engine_data, self_transmission_data, startup_frame>>

NextStartup ==
    \/ SetupCustomTkinter
    \/ SetupStandardTkinter
    \/ InitializeVariables
    \/ SetupGui
    \/ \E field \in DOMAIN EngineFieldValues :
          \E value \in EngineFieldValues[field] : EditEngineField(field, value)
    \/ \E field \in DOMAIN TransmissionFieldValues :
          \E value \in TransmissionFieldValues[field] : EditTransmissionField(field, value)

SpecStartup == InitStartup /\ [][NextStartup]_vars

----------------------------------------------------------------------------
(* Runs of generate_torque_curve on doubles of the binade [2^53, 2^54) *)

\* A double of the binade [2^53, 2^54) is an even integer 2^53 + 2 * k: it is
\* written k here (k in 0..MaxUlps).  The difference of two of them is exact;
\* a sum is rounded to the nearest even integer, a tie to the even significand
\* 2^52 + k.

\* peak_rpm = min_rpm + (max_rpm - min_rpm) * 0.65, in binary64
peak_rpm_binary64(min_rpm, max_rpm) ==
    RoundHalfEven(100 * min_rpm + 65 * (max_rpm - min_rpm), 100)

\* rpm_points in binary64; point i of the code is rpm_points_binary64(..)[i + 1]
rpm_points_binary64(min_rpm, max_rpm) ==
    [k \in 1..10 |-> RoundHalfEven(9 * min_rpm + (max_rpm - min_rpm) * (k - 1), 9)]

\* rpm < peak_rpm; a turbocharged engine compares with peak_rpm * 0.8, which
\* is below 2^53 and so below every sample
rising_binary64(rpm, min_rpm, max_rpm, turbocharged) ==
    ~ turbocharged /\ rpm < peak_rpm_binary64(min_rpm, max_rpm)

\* the divisor of a declining sample is zero: max_rpm - peak_rpm = 0.0
\* (max_rpm - peak_rpm * 0.8 is above 2^51)
divides_by_zero(rpm, min_rpm, max_rpm, turbocharged) ==
    /\ ~ turbocharged
    /\ ~ rising_binary64(rpm, min_rpm, max_rpm, turbocharged)
    /\ max_rpm - peak_rpm_binary64(min_rpm, max_rpm) = 0

\* generate_torque_curve: the checks, the peak, the branch of each sample.  The
\* value returned tells of each sample its rpm and its branch.  min_rpm < 0
\* and peak_rpm <= 0 are false of every double of the binade.
generate_torque_curve_binary64(hp, min_rpm, max_rpm, turbocharged) ==
    IF hp <= 0 THEN Raise("ValueError", "Horsepower must be greater than 0")
    ELSE IF max_rpm <= min_rpm
    THEN Raise("ValueError", "Maximum RPM must be greater than minimum RPM")
    ELSE IF \E k \in 1..10 :
                divides_by_zero(rpm_points_binary64(min_rpm, max_rpm)[k],
                                min_rpm, max_rpm, turbocharged)
    THEN Raise("ZeroDivisionError", "float division by zero")
    ELSE Ok([k \in 1..10 |->
                LET rpm == rpm_points_binary64(min_rpm, max_rpm)[k]
                IN  [rpm |-> rpm,
                     rising |-> rising_binary64(rpm, min_rpm, max_rpm,
                                                turbocharged)]])

InitBinary64 ==
    /\ args \in [hp : {0, 300}, min_rpm : 0..MaxUlps, max_rpm : 0..MaxUlps,
                 turbocharged : BOOLEAN]
    /\ result = "pending"
    /\ pc = "call"
    /\ InitGui

CallTorqueBinary64 ==
    /\ pc = "call"
    /\ result' = generate_torque_curve_binary64(args.hp, args.min_rpm,
                                                args.max_rpm, args.turbocharged)
    /\ pc' = "done"
    /\ UNCHANGED <<args, gui_vars>>

NextBinary64 == CallTorqueBinary64

SpecBinary64 == InitBinary64 /\ [][NextBinary64]_vars

-----------------------------------------------------------------------------
(* Properties of generate_torque_curve (SpecTorque) *)

\* the inputs the data model allows: hp > 0, min_rpm >= 0, max_rpm > min_rpm
ValidTorqueArgs == args.hp > 0 /\ args.min_rpm >= 0 /\ args.max_rpm > args.min_rpm

ExampleCall ==
    /\ pc = "done"
    /\ args = [hp |-> 275, min_rpm |-> 600, max_rpm |-> 3500, turbocharged |-> TRUE]

\* the rpm of sample k of the returned curve: its normalized rpm times max_rpm
SampleRpm(k) == RMul(result.value[k].norm_rpm, RInt(args.max_rpm))

\* what the example has in common with the code, but for the base torque
ExampleFacts(tenths) ==
    /\ result.ok
    /\ peak_rpm(args.min_rpm, args.max_rpm) = RInt(2485)
    /\ base_torque(args.hp, args.min_rpm, args.max_rpm) = Rat(275 * 9549, 2485)
    /\ RoundTo(base_torque(args.hp, args.min_rpm, args.max_rpm), 10) = Rat(tenths, 10)
    /\ SampleRpm(1) = RInt(600)
    /\ SampleRpm(Len(result.value)) = RInt(3500)

\* C17: for hp = 275, min_rpm = 600, max_rpm = 3500, turbocharged, the peak rpm
\* is 2485, the base torque is 275 * 9549 / 2485, which is 1056.7 to one
\* decimal, the first sample is at 600 rpm and the last at 3500 rpm.
C17_ExampleValues == ExampleCall => ExampleFacts(10567)

\* C17 as stated: the same, with the base torque 1057.1 to one decimal
C17_ExampleAsStated == ExampleCall => ExampleFacts(10571)

\* the example has been computed and returned its ten samples
C17_Witness ==
    /\ ExampleCall /\ result.ok /\ Len(result.value) = 10
    /\ RLt(RInt(1056), base_torque(args.hp, args.min_rpm, args.max_rpm))

\* the threshold of the shape factor: peak rpm, or 0.8 of it when turbocharged
ShapeThreshold ==
    IF args.turbocharged
    THEN RMul(peak_rpm(args.min_rpm, args.max_rpm), Rat(8, 10))
    ELSE peak_rpm(args.min_rpm, args.max_rpm)

\* the floor of the decline: 0.7 turbocharged, 0.5 naturally aspirated
ShapeFloor == IF args.turbocharged THEN Rat(7, 10) ELSE Rat(5, 10)

\* the shape factor of sample k of the returned curve: torque / base_torque
SampleFactor(k) ==
    RDiv(result.value[k].torque, base_torque(args.hp, args.min_rpm, args.max_rpm))

\* the value of the rise branch at rpm: (rpm / threshold) ** 0.7 or ** 0.8
RiseValue(rpm) ==
    IF args.turbocharged THEN Pow_0_7(RDiv(rpm, ShapeThreshold))
    ELSE Pow_0_8(RDiv(rpm, ShapeThreshold))

\* the value of the decline branch at rpm, before the floor:
\* 1 - ((rpm - threshold) / (max_rpm - threshold)) ** 0.5 or ** 0.3
DeclineValue(rpm) ==
    LET x == RDiv(RSub(rpm, ShapeThreshold), RSub(RInt(args.max_rpm), ShapeThreshold))
    IN  RSub(RInt(1), IF args.turbocharged THEN Pow_0_5(x) ELSE Pow_0_3(x))

\* C19: with the threshold peak rpm (naturally aspirated) or 0.8 * peak rpm
\* (turbocharged), every sample strictly below the threshold has the factor of
\* the rise branch, which is in [0, 1); every sample at or above it has the
\* factor of the decline branch, which is between the floor (0.5 naturally
\* aspirated, 0.7 turbocharged) and 1; the last sample, at max_rpm, has
\* exactly the floor.
C19_ShapeFactor ==
    (pc = "done" /\ ValidTorqueArgs) =>
        /\ result.ok
        /\ \A k \in 1..Len(result.value) :
              IF RLt(SampleRpm(k), ShapeThreshold)
              THEN /\ SampleFactor(k) = RiseValue(SampleRpm(k))
                   /\ RLe(RInt(0), SampleFactor(k))
                   /\ RLt(SampleFactor(k), RInt(1))
              ELSE /\ SampleFactor(k) = RMax(ShapeFloor, DeclineValue(SampleRpm(k)))
                   /\ RLe(ShapeFloor, SampleFactor(k))
                   /\ RLe(SampleFactor(k), RInt(1))
        /\ SampleRpm(Len(result.value)) = RInt(args.max_rpm)
        /\ SampleFactor(Len(result.value)) = ShapeFloor

\* a turbocharged curve with a sample below 0.8 * peak rpm, a sample between
\* 0.8 * peak rpm and peak rpm that is above the floor, and the last at the floor
C19_Witness ==
    /\ pc = "done" /\ ValidTorqueArgs /\ result.ok /\ args.turbocharged
    /\ \E k \in 1..10 : RLt(SampleRpm(k), ShapeThreshold)
    /\ \E k \in 1..10 :
          /\ RLe(ShapeThreshold, SampleRpm(k))
          /\ RLt(SampleRpm(k), peak_rpm(args.min_rpm, args.max_rpm))
          /\ RLt(ShapeFloor, SampleFactor(k))
    /\ SampleFactor(10) = ShapeFloor

----------------------------------------------------------------------------
(* Properties of the generators of XMLGenerator (SpecXml) *)

\* the <torque .../> lines of a document, in order
TorqueLines(doc) == SelectSeq(doc, LAMBDA line : line.tag.name = "torque")

\* the curve the generator computed for the engine of the call
CurveOfCall ==
    generate_torque_curve(args.engine_data.horsepower, args.engine_data.min_rpm,
                          args.engine_data.max_rpm, args.engine_data.turbocharged).value

\* C2: the torque values generate_engine_xml and generate_combined_fs25_xml
\* emit are the curve's torques divided by the curve's largest torque: each
\* lies in [0, 1] and the largest emitted value is exactly 1.00.
C2_TorqueScale ==
    (pc = "done" /\ result.ok
        /\ args.fn \in {"generate_engine_xml", "generate_combined_fs25_xml"}) =>
        LET emitted == TorqueLines(result.value)
            largest == RMaxOf([k \in 1..10 |-> CurveOfCall[k].torque])
        IN  /\ Len(emitted) = 10
            /\ \A k \in 1..Len(emitted) :
                  /\ emitted[k].tag.attrs.torque.places = 2
                  /\ emitted[k].tag.attrs.torque.digits \in 0..100
                  /\ emitted[k].tag.attrs.torque =
                         format_2f(RDiv(CurveOfCall[k].torque, largest))
            /\ \E k \in 1..Len(emitted) : emitted[k].tag.attrs.torque = Dec(100, 2)

\* a combined document whose curve rises to its peak and falls again
C2_Witness ==
    /\ pc = "done" /\ result.ok /\ args.fn = "generate_combined_fs25_xml"
    /\ TorqueLines(result.value)[1].tag.attrs.torque.digits < 100
    /\ TorqueLines(result.value)[10].tag.attrs.torque.digits < 100
    /\ \E k \in 2..9 : TorqueLines(result.value)[k].tag.attrs.torque = Dec(100, 2)

\* the positions of the lines of a document whose tag has this kind and name
LinesOf(doc, kind, name) ==
    {k \in 1..Len(doc) : doc[k].tag.kind = kind /\ doc[k].tag.name = name}

\* the gear-ratio table the generator computed for the transmission of the call
RatiosOfCall == gear_ratios_of(args.transmission_data).value

\* the lines from <transmission ..> to </transmission>, both excluded
InsideTransmission(doc) ==
    LET open == CHOOSE k \in LinesOf(doc, "open", "transmission") : TRUE
        close == CHOOSE k \in LinesOf(doc, "close", "transmission") : TRUE
    IN  SubSeq(doc, open + 1, close - 1)

\* C11: the transmission-only and the combined document hold one
\* <transmission> element whose gears are the reverseCount backwardGear
\* elements, in the order of the reverse ratios, followed by the N forwardGear
\* elements, in the order of the forward ratios (after the one
\* <directionChange/> the element starts with); the engine-only document
\* holds no <transmission>; each document is one <motorConfigurations>
\* element, first after the declaration and closed on the last line, with
\* one <motorConfiguration> in it.
C11_DocumentShape ==
    (pc = "done" /\ result.ok) =>
        LET doc == result.value
        IN  /\ Cardinality(LinesOf(doc, "open", "motorConfigurations")) = 1
            /\ Cardinality(LinesOf(doc, "close", "motorConfigurations")) = 1
            /\ Cardinality(LinesOf(doc, "open", "motorConfiguration")) = 1
            /\ Cardinality(LinesOf(doc, "close", "motorConfiguration")) = 1
            /\ doc[1].tag.kind = "decl"
            /\ LinesOf(doc, "open", "motorConfigurations") = {2}
            /\ LinesOf(doc, "open", "motorConfiguration") = {3}
            /\ LinesOf(doc, "close", "motorConfiguration") = {Len(doc) - 1}
            /\ LinesOf(doc, "close", "motorConfigurations") = {Len(doc)}
            /\ IF args.fn = "generate_engine_xml"
               THEN \A k \in 1..Len(doc) : doc[k].tag.name # "transmission"
               ELSE /\ Cardinality(LinesOf(doc, "open", "transmission")) = 1
                    /\ Cardinality(LinesOf(doc, "close", "transmission")) = 1
                    /\ LET inside == InsideTransmission(doc)
                           reverse == RatiosOfCall.reverse
                           forward == RatiosOfCall.forward
                       IN  /\ Len(reverse) = args.transmission_data.num_reverse
                           /\ Len(forward) = args.transmission_data.num_forward
                           /\ Len(inside) = 1 + Len(reverse) + Len(forward)
                           /\ inside[1].tag.name = "directionChange"
                           /\ \A k \in 1..Len(reverse) :
                                 /\ inside[1 + k].tag.kind = "self"
                                 /\ inside[1 + k].tag.name = "backwardGear"
                                 /\ inside[1 + k].tag.attrs.gearRatio = format_3f(reverse[k])
                           /\ \A k \in 1..Len(forward) :
                                 /\ inside[1 + Len(reverse) + k].tag.kind = "self"
                                 /\ inside[1 + Len(reverse) + k].tag.name = "forwardGear"
                                 /\ inside[1 + Len(reverse) + k].tag.attrs.gearRatio
                                        = format_3f(forward[k])

\* C11 witness: a combined document with two reverse gears and eight forward
\* gears, and no two gears of the same ratio
C11_Witness ==
    /\ pc = "done" /\ result.ok /\ args.fn = "generate_combined_fs25_xml"
    /\ args.transmission_data.num_reverse = 2
    /\ args.transmission_data.num_forward = 8
    /\ Cardinality(LinesOf(result.value, "self", "backwardGear")) = 2
    /\ Cardinality(LinesOf(result.value, "self", "forwardGear")) = 8
    /\ Cardinality({result.value[k].tag.attrs.gearRatio :
                       k \in LinesOf(result.value, "self", "backwardGear")
                             \cup LinesOf(result.value, "self", "forwardGear")}) = 10

\* the number a decimal string denotes, as a reader of the document parses it
ParseDec(dec) == Rat(dec.digits, 10 ^ dec.places)

\* the attributes of the one line of a document with this opening tag
AttrsOf(doc, name) == doc[CHOOSE k \in LinesOf(doc, "open", name) : TRUE].tag.attrs

\* C12: the hp attribute of <motorConfiguration> and the minRpm, maxRpm and
\* torqueScale attributes of <motor> in the document generate_engine_xml
\* returns denote the horsepower, min_rpm, max_rpm and fuel_usage_scale of the
\* engine_data it was given.
C12_EngineRoundTrip ==
    (pc = "done" /\ result.ok /\ args.fn = "generate_engine_xml") =>
        /\ ParseDec(AttrsOf(result.value, "motorConfiguration").hp)
               = RInt(args.engine_data.horsepower)
        /\ ParseDec(AttrsOf(result.value, "motor").minRpm) = RInt(args.engine_data.min_rpm)
        /\ ParseDec(AttrsOf(result.value, "motor").maxRpm) = RInt(args.engine_data.max_rpm)
        /\ ParseDec(AttrsOf(result.value, "motor").torqueScale)
               = args.engine_data.fuel_usage_scale

\* C12 witness: an engine document whose fuel usage scale needs two decimals
C12_Witness ==
    /\ pc = "done" /\ result.ok /\ args.fn = "generate_engine_xml"
    /\ args.engine_data.fuel_usage_scale = Rat(85, 100)
    /\ AttrsOf(result.value, "motor").torqueScale = Dec(85, 2)
    /\ AttrsOf(result.value, "motorConfiguration").hp = Dec(2750, 1)

\* C16: the <motor> of the combined document has the transmission's top_speed
\* as maxForwardSpeed; the <motor> of the engine-only document has
\* maxForwardSpeed="120" whatever the engine; so for one engine the two
\* <motor> tags differ in maxForwardSpeed whenever top_speed is not 120.
C16_MaxForwardSpeed ==
    (pc = "done" /\ result.ok) =>
        /\ args.fn = "generate_engine_xml" =>
               AttrsOf(result.value, "motor").maxForwardSpeed = Dec(120, 0)
        /\ args.fn = "generate_combined_fs25_xml" =>
               LET combined == AttrsOf(result.value, "motor").maxForwardSpeed
                   engine == AttrsOf(generate_engine_xml(args.engine_data).value,
                                     "motor").maxForwardSpeed
               IN  /\ ParseDec(combined) = RInt(args.transmission_data.top_speed)
                   /\ engine = Dec(120, 0)
                   /\ args.transmission_data.top_speed # 120 =>
                          /\ combined # engine
                          /\ ParseDec(combined) # ParseDec(engine)

\* C16 witness: a combined document for a transmission with top speed 50
C16_Witness ==
    /\ pc = "done" /\ result.ok /\ args.fn = "generate_combined_fs25_xml"
    /\ args.transmission_data.top_speed = 50
    /\ AttrsOf(result.value, "motor").maxForwardSpeed = Dec(500, 1)
    /\ AttrsOf(generate_engine_xml(args.engine_data).value, "motor").maxForwardSpeed
           = Dec(120, 0)

\* the <torque> lines of a document, in order
TorqueElements(doc) == SelectSeq(doc, LAMBDA line : line.tag.name = "torque")

\* the <transmission> element of a document: its lines from the opening tag
\* to the closing tag
TransmissionElement(doc) ==
    LET open == CHOOSE k \in LinesOf(doc, "open", "transmission") : TRUE
        close == CHOOSE k \in LinesOf(doc, "close", "transmission") : TRUE
    IN  SubSeq(doc, open, close)

\* C27: the combined document of an engine e and a transmission t has the
\* <torque> elements of generate_engine_xml(e), in the same order, and the
\* <transmission> element of generate_transmission_xml(t), with the same
\* attributes and the same backwardGear and forwardGear elements in the same
\* order; its price attribute is e.cost + t.cost.
C27_CombinedAgrees ==
    (pc = "done" /\ args.fn = "generate_combined_fs25_xml" /\ result.ok) =>
        LET engine_xml == generate_engine_xml(args.engine_data)
            transmission_xml == generate_transmission_xml(args.transmission_data)
        IN  /\ engine_xml.ok /\ transmission_xml.ok
            /\ TorqueElements(result.value) = TorqueElements(engine_xml.value)
            /\ TransmissionElement(result.value) = TransmissionElement(transmission_xml.value)
            /\ ParseDec(AttrsOf(result.value, "motorConfiguration").price)
                  = RInt(args.engine_data.cost + args.transmission_data.cost)

\* a combined document of an engine and a transmission that both have a
\* price, with ten <torque> elements and eight forward gears
C27_Witness ==
    /\ pc = "done" /\ args.fn = "generate_combined_fs25_xml" /\ result.ok
    /\ args.engine_data.cost > 0 /\ args.transmission_data.cost > 0
    /\ Len(TorqueElements(result.value)) = 10
    /\ Len(TransmissionElement(result.value)) = 2 + 1 + 2 + 8

----------------------------------------------------------------------------
(* Properties of calculate_gear_ratios (SpecGear) *)

\* the inputs the data model allows: N > 0, reverse count >= 0, top speed > 0
ValidGearArgs == args.num_forward > 0 /\ args.num_reverse >= 0 /\ args.top_speed > 0

\* x has at most 3 decimals
Has3Decimals(x) == 1000 % x.d = 0

\* the ramp from `first` (gear 0) to `last` (gear n - 1), in tenths, rounded to
\* 3 decimals; a single gear has the first value
LinearRamp(first, last, i, n) ==
    IF n = 1 THEN Rat(first, 10)
    ELSE RoundTo(Rat(first * (n - 1) - (first - last) * i, 10 * (n - 1)), 1000)

\* gear i's ratio with the boost applied to the lowest `boosted` gears
Boosted(base, i, boosted, boost) ==
    RoundTo(IF i < boosted THEN Rat(base.n * (100 + boost), base.d * 100) ELSE base, 1000)

\* C4: for every valid call the forward list has exactly N ratios, the
\* reverse list exactly reverseCount, and every ratio has at most 3 decimals.
C4_Lengths ==
    (pc = "done" /\ ValidGearArgs) =>
        /\ result.ok
        /\ Len(result.value.forward) = args.num_forward
        /\ Len(result.value.reverse) = args.num_reverse
        /\ \A k \in 1..Len(result.value.forward) : Has3Decimals(result.value.forward[k])
        /\ \A k \in 1..Len(result.value.reverse) : Has3Decimals(result.value.reverse[k])

\* an 8-speed CVT with reverse gears: its ramp 4.2 - 3 i / 7 needs rounding
C4_Witness ==
    /\ pc = "done" /\ result.ok
    /\ args.transmission_type = "CVT" /\ args.num_forward = 8 /\ args.num_reverse = 2
    /\ ~ Has3Decimals(base_ratio("CVT", 8, 1))

\* C5: without low gearing a Manual transmission with 6 forward gears has
\* exactly the ratios 4.784, 2.423, 1.443, 1.0, 0.826, 0.643 and one with 7
\* has 5.0, 2.8, 1.8, 1.2, 1.0, 0.8, 0.6, whatever reverseCount and topSpeed.
C5_ManualTables ==
    (pc = "done" /\ ValidGearArgs /\ args.transmission_type = "Manual"
        /\ ~ args.enable_low_gearing) =>
        /\ args.num_forward = 6 =>
              result.value.forward =
                  <<Rat(4784, 1000), Rat(2423, 1000), Rat(1443, 1000), Rat(1, 1),
                    Rat(826, 1000), Rat(643, 1000)>>
        /\ args.num_forward = 7 =>
              result.value.forward =
                  <<Rat(5, 1), Rat(28, 10), Rat(18, 10), Rat(12, 10), Rat(1, 1),
                    Rat(8, 10), Rat(6, 10)>>

\* the 6-speed Manual table has been returned
C5_Witness ==
    /\ pc = "done" /\ result.ok /\ args.transmission_type = "Manual"
    /\ args.num_forward = 6 /\ ~ args.enable_low_gearing /\ args.num_reverse = 3
    /\ args.top_speed = 120

\* C6 as amended: with low gearing enabled exactly the gears with index
\* i < 0.25 * N, the lowest ceil(0.25 * N) gears, have their base ratio
\* multiplied by 1 + boost / 100; every other gear keeps its base ratio.
C6_BoostedRoundedUp ==
    (pc = "done" /\ ValidGearArgs /\ args.enable_low_gearing) =>
        \A i \in 0..(args.num_forward - 1) :
            result.value.forward[i + 1] =
                Boosted(base_ratio(args.transmission_type, args.num_forward, i), i,
                        (args.num_forward + 3) \div 4, args.low_gear_boost)

\* C6 as claimed: the lowest floor(0.25 * N) gears are the boosted ones
C6_BoostedRoundedDown ==
    (pc = "done" /\ ValidGearArgs /\ args.enable_low_gearing) =>
        \A i \in 0..(args.num_forward - 1) :
            result.value.forward[i + 1] =
                Boosted(base_ratio(args.transmission_type, args.num_forward, i), i,
                        args.num_forward \div 4, args.low_gear_boost)

\* 6 gears with a boost of 25 %: gears 0 and 1 are boosted, gear 2 is not
C6_Witness ==
    /\ pc = "done" /\ result.ok /\ args.enable_low_gearing
    /\ args.num_forward = 6 /\ args.low_gear_boost = 25
    /\ args.transmission_type = "Automatic"
    /\ result.value.forward[2] # RoundTo(base_ratio("Automatic", 6, 1), 1000)
    /\ result.value.forward[3] = RoundTo(base_ratio("Automatic", 6, 2), 1000)

\* C7 as amended: without low gearing the forward ratios are the ramp 4.2 to
\* 1.2 (CVT), 4.5 to 1.3 (Automatic), 4.8 to 1.3 (PowerShift, and Manual with
\* N other than 1, 6 or 7), each rounded to 3 decimals; a single gear is 4.2
\* (CVT), 4.5 (Automatic), 4.8 (PowerShift) and 4.784 (Manual).
C7_BaseRatios ==
    (pc = "done" /\ ValidGearArgs /\ ~ args.enable_low_gearing) =>
        \A i \in 0..(args.num_forward - 1) :
            /\ args.transmission_type = "CVT" =>
                  result.value.forward[i + 1] = LinearRamp(42, 12, i, args.num_forward)
            /\ args.transmission_type = "Automatic" =>
                  result.value.forward[i + 1] = LinearRamp(45, 13, i, args.num_forward)
            /\ args.transmission_type = "PowerShift" =>
                  result.value.forward[i + 1] = LinearRamp(48, 13, i, args.num_forward)
            /\ (args.transmission_type = "Manual" /\ args.num_forward \notin {1, 6, 7}) =>
                  result.value.forward[i + 1] = LinearRamp(48, 13, i, args.num_forward)
            /\ (args.transmission_type = "Manual" /\ args.num_forward = 1) =>
                  result.value.forward[i + 1] = Rat(4784, 1000)

\* C7 as claimed: a Manual transmission with any N other than 6 or 7, N = 1
\* included, follows the ramp from 4.8
C7_BaseRatiosAsClaimed ==
    (pc = "done" /\ ValidGearArgs /\ ~ args.enable_low_gearing) =>
        \A i \in 0..(args.num_forward - 1) :
            /\ args.transmission_type = "CVT" =>
                  result.value.forward[i + 1] = LinearRamp(42, 12, i, args.num_forward)
            /\ args.transmission_type = "Automatic" =>
                  result.value.forward[i + 1] = LinearRamp(45, 13, i, args.num_forward)
            /\ args.transmission_type = "PowerShift" =>
                  result.value.forward[i + 1] = LinearRamp(48, 13, i, args.num_forward)
            /\ (args.transmission_type = "Manual" /\ args.num_forward \notin {6, 7}) =>
                  result.value.forward[i + 1] = LinearRamp(48, 13, i, args.num_forward)

\* a 5-speed Manual transmission has been computed: 4.8 down to 1.3
C7_Witness ==
    /\ pc = "done" /\ result.ok /\ ~ args.enable_low_gearing
    /\ args.transmission_type = "Manual" /\ args.num_forward = 5
    /\ result.value.forward[1] = Rat(48, 10) /\ result.value.forward[5] = Rat(13, 10)

\* C8: reverse ratio i is the first forward ratio of the same result times
\* 1.2 + 0.3 i, rounded to 3 decimals.
C8_ReverseRatios ==
    (pc = "done" /\ ValidGearArgs) =>
        \A i \in 0..(args.num_reverse - 1) :
            result.value.reverse[i + 1] =
                RoundTo(Rat(result.value.forward[1].n * (12 + 3 * i),
                            result.value.forward[1].d * 10), 1000)

\* three reverse gears behind a boosted first gear whose ratio needed rounding
C8_Witness ==
    /\ pc = "done" /\ result.ok /\ args.num_reverse = 3
    /\ args.enable_low_gearing /\ args.low_gear_boost = 33
    /\ args.transmission_type = "Manual" /\ args.num_forward = 6
    /\ result.value.forward[1] #
           RMul(base_ratio("Manual", 6, 0), boost_factor(33))

\* C10: the call raises ValueError, and returns no table, exactly when N <= 0
\* or reverseCount < 0 or topSpeed <= 0; otherwise it returns the table (a
\* single forward gear included, for every transmission type).
C10_GearValidation ==
    pc = "done" =>
        /\ result.ok <=> ValidGearArgs
        /\ ~ result.ok => result.error = "ValueError"
        /\ result.ok => Len(result.value.forward) = args.num_forward

\* a single-gear transmission has been computed
C10_Witness ==
    /\ pc = "done" /\ result.ok /\ args.num_forward = 1
    /\ args.transmission_type = "PowerShift"

----------------------------------------------------------------------------
(* Properties of calculate_gear_ratios: top speed and order (SpecGear) *)

\* C29: the ratios do not depend on top_speed: a valid call returns what the
\* call with the same arguments and any other top speed above 0 returns.
C29_TopSpeedIrrelevant ==
    (pc = "done" /\ result.ok) =>
        \A top_speed \in TopSpeedValues :
            top_speed > 0 =>
                calculate_gear_ratios(args.transmission_type, args.num_forward,
                                      args.num_reverse, top_speed,
                                      args.enable_low_gearing,
                                      args.low_gear_boost) = result

\* a call with low gearing and reverse gears has returned, and the runs hold
\* another top speed to compare it with
C29_Witness ==
    /\ pc = "done" /\ result.ok
    /\ args.top_speed = 40 /\ 120 \in TopSpeedValues
    /\ args.enable_low_gearing /\ args.low_gear_boost = 25
    /\ args.num_forward = 6 /\ args.num_reverse = 2
    /\ result.value.forward[1] = Rat(5980, 1000)

\* C30: with 2 to 20 forward gears and a boost of 0 or more, the forward ratios
\* are positive and strictly decreasing, the reverse ratios strictly increasing,
\* and every reverse ratio is above the first forward ratio.
C30_RatiosOrdered ==
    (pc = "done" /\ result.ok /\ args.num_forward \in 2..20
        /\ args.low_gear_boost >= 0) =>
        LET forward == result.value.forward
            reverse == result.value.reverse
        IN  /\ \A k \in 1..Len(forward) : RLt(RInt(0), forward[k])
            /\ \A k \in 1..(Len(forward) - 1) : RLt(forward[k + 1], forward[k])
            /\ \A k \in 1..(Len(reverse) - 1) : RLt(reverse[k], reverse[k + 1])
            /\ \A k \in 1..Len(reverse) : RLt(forward[1], reverse[k])

\* a 20-speed transmission with boosted low gears and three reverse gears
C30_Witness ==
    /\ pc = "done" /\ result.ok
    /\ args.num_forward = 20 /\ args.num_reverse = MaxReverse
    /\ args.enable_low_gearing /\ args.low_gear_boost = 50
    /\ Len(result.value.forward) = 20 /\ Len(result.value.reverse) = 3

-----------------------------------------------------------------------------
(* Properties of the application (Spec) *)

\* the form holds numbers with maxRPM <= minRPM
InvalidRpm(form) ==
    /\ float_parses(form.min_rpm) /\ float_parses(form.max_rpm)
    /\ RLe(form.max_rpm.value, form.min_rpm.value)

\* a step of one of the five handlers that produce engine XML
EngineXmlStep ==
    \/ GenerateEngineXml
    \/ GenerateBothXml
    \/ \E outcome \in ClipboardOutcomes : CopyEngineXml(outcome)
    \/ \E filename \in SaveDialogNames, outcome \in WriteOutcomes :
          SaveEngineXml(filename, outcome)
    \/ \E base_filename \in SaveDialogNames, failing \in 0..3 :
          SaveBothXml(base_filename, failing)

\* the same, the file dialog of the two saves answered with a file name
EngineXmlStepWithFile ==
    \/ GenerateEngineXml
    \/ GenerateBothXml
    \/ \E outcome \in ClipboardOutcomes : CopyEngineXml(outcome)
    \/ \E filename \in SaveDialogNames \ {""}, outcome \in WriteOutcomes :
          SaveEngineXml(filename, outcome)
    \/ \E base_filename \in SaveDialogNames \ {""}, failing \in 0..3 :
          SaveBothXml(base_filename, failing)

\* C3: while the form holds maxRPM <= minRPM, generate engine, generate
\* combined, copy engine, save engine and save combined leave the preview,
\* the clipboard and the files as they were, whatever the clipboard and the
\* file system would do, and each of them (the saves once their file dialog
\* has returned a name, which comes before the form is read) reports an
\* error raised as ValueError, the program's invalid-input exception
C3_InvalidRpmNoXml ==
    [][ /\ (InvalidRpm(self_engine_data) /\ EngineXmlStep)
            => UNCHANGED <<xml_text, clipboard, files>>
        /\ (InvalidRpm(self_engine_data) /\ EngineXmlStepWithFile)
            => (dialog'.kind = "error" /\ dialog'.exc = "ValueError") ]_vars

\* C3 witness: a preview generated earlier is still shown after an action on
\* a form with maxRPM <= minRPM has reported ValueError
C3_Witness ==
    /\ pc = "gui"
    /\ InvalidRpm(self_engine_data)
    /\ dialog.kind = "error" /\ dialog.exc = "ValueError"
    /\ xml_text # <<>>

\* the file is a JSON object in which a required key is absent: "engine",
\* "transmission", or a field of one of the two
MissingKey(filename) ==
    /\ load_preset(filename).ok
    /\ LET preset_data == load_preset(filename).value
       IN  \/ "engine" \notin DOMAIN preset_data
           \/ "transmission" \notin DOMAIN preset_data
           \/ ~ (required_engine_fields \subseteq DOMAIN preset_data.engine)
           \/ ~ (required_trans_fields \subseteq DOMAIN preset_data.transmission)

\* C13: loading a preset file in which a required key is absent ("engine",
\* "transmission", or a field of one of the two) shows an error and does not
\* report that the preset was loaded.
C13_MissingKeyFails ==
    [][ \A filename \in OpenDialogNames \ {""} :
            (MissingKey(filename) /\ LoadCurrentPreset(filename))
                => (dialog'.kind = "error" /\ dialog' # ShowInfo("Success")) ]_vars

\* C13 witness: a preset file without "engine" has been loaded: the engine
\* form is as it was, the transmission form holds the file's transmission,
\* and the handler has reported success
C13_Witness ==
    /\ pc = "gui" /\ steps = 1
    /\ MissingKey("no_engine.json")
    /\ self_engine_data = InitialEngineForm
    /\ self_transmission_data =
           transmission_form_of(load_preset("no_engine.json").value.transmission)
    /\ dialog = ShowInfo("Success")

\* the main loop can run a callback: every handler is UserCallback together
\* with an effect defined in every state, so each button can be pressed and
\* each field edited exactly when this holds
CallbackEnabled == ENABLED UserCallback

\* C14: whenever something has failed in a handler (the form was refused, a
\* file could not be written or read, the clipboard was out of reach, a
\* preset file was malformed, a preset name was refused), the handler has
\* ended with one error box, which names the exception it caught, and the
\* application is in its main loop, where the next callback can run: every
\* button can be pressed and every field edited again (within the MaxSteps
\* actions of a session).
C14_NoFailureIsFatal ==
    failure # "" =>
        /\ dialog.kind = "error"
        /\ failure # "invalid preset name" => dialog.exc = failure
        /\ pc = "gui"
        /\ steps < MaxSteps => CallbackEnabled

\* C14 witness: the write of a save has failed with PermissionError, the error
\* box has been shown, and the same save can be triggered again
C14_Witness ==
    /\ pc = "gui" /\ steps = 1
    /\ failure = "PermissionError"
    /\ dialog = ShowError("Permission Error", "PermissionError")
    /\ files["cfg.xml"] = <<>>
    /\ CallbackEnabled

\* save_current_preset has just written cfg.json and reported success
PresetSaved ==
    /\ callback = "save_current_preset"
    /\ dialog = ShowInfo("Success")

\* the step is load_current_preset reading cfg.json and reporting success: both
\* parts of the form are as the set() calls leave them
LoadsSavedPreset ==
    /\ callback' = "load_current_preset"
    /\ dialog' = ShowInfo("Success")
    /\ self_engine_data' = engine_form_of(files["cfg.json"].json.engine)
    /\ self_transmission_data' = transmission_form_of(files["cfg.json"].json.transmission)

\* C21: when save_current_preset has written a file from a valid form and
\* load_current_preset then loads that file, get_engine_data and
\* get_transmission_data return from the restored form the same dictionaries
\* as from the form before the save.
C21_PresetRoundTrip ==
    [][(PresetSaved /\ LoadsSavedPreset) =>
          /\ get_engine_data(self_engine_data).ok
          /\ get_engine_data(self_engine_data') = get_engine_data(self_engine_data)
          /\ get_transmission_data(self_transmission_data).ok
          /\ get_transmission_data(self_transmission_data')
                = get_transmission_data(self_transmission_data)]_vars

\* a form edited to a naturally aspirated engine, saved to cfg.json and loaded
\* back: the entries now hold the texts str() gives
C21_Witness ==
    /\ callback = "load_current_preset"
    /\ dialog = ShowInfo("Success")
    /\ files["cfg.json"] # <<>>
    /\ self_engine_data = engine_form_of(files["cfg.json"].json.engine)
    /\ self_transmission_data = transmission_form_of(files["cfg.json"].json.transmission)
    /\ self_engine_data.turbocharged # InitialEngineForm.turbocharged
    /\ self_engine_data.min_rpm = TextFloat(RInt(600))

\* the generate, copy and save-XML handlers
XmlCallbacks ==
    {"generate_engine_xml", "generate_transmission_xml", "generate_both_xml",
     "copy_engine_xml", "copy_transmission_xml",
     "save_engine_xml", "save_transmission_xml", "save_both_xml"}

\* the document generated, <<>> when the form was refused
DocumentIn(xml) == IF xml.ok THEN xml.value ELSE <<>>

\* the documents of the form as it is after the step
EngineDocument == DocumentIn(try_engine_xml(self_engine_data'))
TransmissionDocument == DocumentIn(try_transmission_xml(self_transmission_data'))
CombinedDocument ==
    DocumentIn(try_combined_xml(self_engine_data', self_transmission_data'))

\* the document a handler shows, copies or writes to the file f
DocumentOf(handler, f) ==
    CASE handler \in {"generate_engine_xml", "copy_engine_xml", "save_engine_xml"} ->
            EngineDocument
      [] handler \in {"generate_transmission_xml", "copy_transmission_xml",
                      "save_transmission_xml"} -> TransmissionDocument
      [] handler = "generate_both_xml" -> CombinedDocument
      [] handler = "save_both_xml" ->
            IF f = "cfg_engine.xml" THEN EngineDocument
            ELSE IF f = "cfg_transmission.xml" THEN TransmissionDocument
            ELSE CombinedDocument

\* C20: a step of a generate, copy or save-XML handler leaves the two forms
\* and the two preset dictionaries as they are, and whatever it puts into the
\* preview, the clipboard or a file is the document generated from the form
\* as it is at that moment (the clipboard may also be left cleared).
C20_FreshAndFramed ==
    [][callback' \in XmlCallbacks =>
          /\ self_engine_data' = self_engine_data
          /\ self_transmission_data' = self_transmission_data
          /\ ENGINE_PRESETS' = ENGINE_PRESETS
          /\ TRANSMISSION_PRESETS' = TRANSMISSION_PRESETS
          /\ xml_text' # xml_text => xml_text' = DocumentOf(callback', "")
          /\ (clipboard' # clipboard /\ clipboard' # <<>>)
                => clipboard' = DocumentOf(callback', "")
          /\ \A f \in FileNames :
                files'[f] # files[f] => files'[f] = DocumentOf(callback', f)]_vars

\* the engine XML has been copied from a form edited after an XML of the
\* form's earlier content was generated: clipboard and preview differ
C20_Witness ==
    /\ callback = "copy_engine_xml"
    /\ self_engine_data # InitialEngineForm
    /\ xml_text # <<>>
    /\ clipboard # <<>>
    /\ clipboard # xml_text

\* the step has replaced an entry that the dictionary already had
Replaces(presets_before, presets_after) ==
    \E n \in DOMAIN presets_before :
        n \in DOMAIN presets_after /\ presets_after[n] # presets_before[n]

\* add_to_presets has refused the name or the user has declined
RefusedOrDeclined == askyesno' = "no" \/ failure' = "invalid preset name"

\* C24: a step of add_to_presets replaces an existing entry of the engine
\* presets or of the transmission presets only when the user was asked and
\* answered yes; when the user declines, or the name is refused, both
\* dictionaries stay as they are.
C24_OverwriteOnlyConfirmed ==
    [][callback' = "add_to_presets" =>
          /\ Replaces(ENGINE_PRESETS, ENGINE_PRESETS') => askyesno' = "yes"
          /\ Replaces(TRANSMISSION_PRESETS, TRANSMISSION_PRESETS') => askyesno' = "yes"
          /\ RefusedOrDeclined => UNCHANGED preset_vars]_vars

\* a built-in transmission preset has been replaced by add_to_presets without
\* any question asked
C24_Witness ==
    /\ callback = "add_to_presets"
    /\ askyesno = ""
    /\ dialog = ShowInfo("Success")
    /\ TRANSMISSION_PRESETS["4-speed with Granny Gear"]
          # BuiltinTransmissionPresets["4-speed with Granny Gear"]

\* what holds: an engine preset is replaced only after a yes, and a refusal or
\* a no leaves both dictionaries as they are
C24_HoldsForEnginePresets ==
    [][callback' = "add_to_presets" =>
          /\ Replaces(ENGINE_PRESETS, ENGINE_PRESETS') => askyesno' = "yes"
          /\ RefusedOrDeclined => UNCHANGED preset_vars]_vars

\* the three files save_both_xml writes for the base name cfg
BothXmlFiles == {"cfg_fs25.xml", "cfg_engine.xml", "cfg_transmission.xml"}

\* C25: after a step of save_both_xml, whatever it reported, either all three
\* files hold the documents of the form or no file has changed.
C25_SaveBothAllOrNothing ==
    [][callback' = "save_both_xml" =>
          \/ files' = files
          \/ \A f \in BothXmlFiles :
                files'[f] # <<>> /\ files'[f] = DocumentOf("save_both_xml", f)]_vars

\* the second write of save_both_xml has failed: the combined file is there,
\* the engine and transmission files are not, and the error box is shown
C25_Witness ==
    /\ callback = "save_both_xml"
    /\ dialog = ShowError("Error", "OSError")
    /\ files["cfg_fs25.xml"] # <<>>
    /\ files["cfg_engine.xml"] = <<>>
    /\ files["cfg_transmission.xml"] = <<>>

\* what holds: when save_both_xml reports success all three files hold the
\* documents of the form, and a cancelled dialog or a refused form changes none
C25_HoldsWithoutWriteFailure ==
    [][(callback' = "save_both_xml" /\ failure' # "OSError") =>
          \/ files' = files /\ dialog' # ShowInfo("Success")
          \/ /\ dialog' = ShowInfo("Success")
             /\ \A f \in BothXmlFiles :
                   files'[f] # <<>> /\ files'[f] = DocumentOf("save_both_xml", f)]_vars

\* C26: whenever a step of load_current_preset reports an invalid preset (a
\* required engine or transmission field is missing), no field of the engine
\* form and no field of the transmission form has changed.
C26_LoadAllOrNothing ==
    [][(callback' = "load_current_preset" /\ failure' = "ValueError") =>
          /\ self_engine_data' = self_engine_data
          /\ self_transmission_data' = self_transmission_data]_vars

\* the first action has loaded a preset whose transmission lacks a field: the
\* error box is shown, and the engine form holds the preset's engine
C26_Witness ==
    /\ steps = 1
    /\ callback = "load_current_preset"
    /\ dialog = ShowError("Error", "ValueError")
    /\ self_engine_data = engine_form_of(PresetFilesOnDisk["no_type.json"].json.engine)
    /\ self_engine_data # InitialEngineForm
    /\ self_transmission_data = InitialTransmissionForm

\* what holds: a preset with a missing engine field changes neither form, and
\* a missing transmission field leaves the transmission form as it was
C26_HoldsForTransmissionForm ==
    [][(callback' = "load_current_preset" /\ failure' = "ValueError") =>
          self_transmission_data' = self_transmission_data]_vars

----------------------------------------------------------------------------
(* Properties of get_engine_data and get_transmission_data (SpecForm) *)

\* the constraints of the data model, on the numbers the entries hold
IsPositive(text) == float_parses(text) /\ RLt(RInt(0), text.value)
IsNonNegative(text) == float_parses(text) /\ RLe(RInt(0), text.value)

EngineConstraints(form) ==
    /\ strip(form.name) # ""
    /\ int_parses(form.cost) /\ IsNonNegative(form.cost)
    /\ IsPositive(form.horsepower)
    /\ IsNonNegative(form.min_rpm)
    /\ float_parses(form.max_rpm) /\ RLt(form.min_rpm.value, form.max_rpm.value)
    /\ IsPositive(form.fuel_usage_scale)

TransmissionConstraints(form) ==
    /\ strip(form.name) # ""
    /\ int_parses(form.cost) /\ IsNonNegative(form.cost)
    /\ form.type \in {"Manual", "Automatic", "CVT", "PowerShift"}
    /\ IsPositive(form.top_speed)
    /\ int_parses(form.num_forward) /\ IsPositive(form.num_forward)
    /\ int_parses(form.num_reverse) /\ IsNonNegative(form.num_reverse)
    /\ IsNonNegative(form.low_gear_boost)

\* C15: get_engine_data and get_transmission_data return a dictionary exactly
\* for the forms whose values satisfy the constraints of the data model
\* (engine: name not empty, cost >= 0, horsepower > 0, min_rpm >= 0,
\* max_rpm > min_rpm, fuel_usage_scale > 0; transmission: name not empty,
\* cost >= 0, type one of the four, top_speed > 0, num_forward > 0,
\* num_reverse >= 0, low_gear_boost >= 0), and raise for every other form.
C15_SpecsSatisfyConstraints ==
    pc = "done" =>
        result.ok = IF args.fn = "get_engine_data" THEN EngineConstraints(args.form)
                    ELSE TransmissionConstraints(args.form)

\* what holds: the same for the forms none of whose entries holds "nan"
C15_HoldsForNumbers ==
    (pc = "done" /\ \A f \in DOMAIN args.form :
                       f \in {"name", "type", "turbocharged", "enable_low_gearing"}
                           \/ args.form[f] # TextNan) =>
        result.ok = IF args.fn = "get_engine_data" THEN EngineConstraints(args.form)
                    ELSE TransmissionConstraints(args.form)

\* C15 witness: the horsepower entry holds "nan", every other entry a valid
\* value, and get_engine_data has returned a dictionary whose horsepower is NaN
C15_Witness ==
    /\ pc = "done" /\ args.fn = "get_engine_data"
    /\ args.form.horsepower = TextNan
    /\ result.ok
    /\ IsNaN(result.value.horsepower)
    /\ ~ IsPositive(args.form.horsepower)

----------------------------------------------------------------------------
(* Properties of PresetManager under threads (SpecThreads) *)

\* thread t has its lock and is in, or about to enter or leave, the with block
HasLock(t) == threads[t].pc \in {"acquire", "inside", "release"}

\* thread t is inside a critical section: it has acquired and not yet released
InCriticalSection(t) == threads[t].pc \in {"inside", "release"}

\* C18: from the first call on, all threads calling the four methods use the
\* same lock object, and at most one thread at a time is inside a critical
\* section on the preset dictionaries.
C18_SingleLock ==
    \A t1, t2 \in Threads :
        /\ (HasLock(t1) /\ HasLock(t2)) => threads[t1].lock = threads[t2].lock
        /\ (InCriticalSection(t1) /\ InCriticalSection(t2)) => t1 = t2

\* two threads are in their first calls at the same time, one of them inside
\* its critical section and the other about to take the lock it was given
C18_Witness ==
    \E t1, t2 \in Threads :
        /\ t1 # t2
        /\ threads[t1].calls = 0 /\ threads[t1].pc = "inside"
        /\ threads[t2].calls = 0 /\ threads[t2].pc = "acquire"

----------------------------------------------------------------------------
(* Properties of format_xml (SpecFormat) *)

\* the indent_level before part k
LevelBefore(k) == IF k = 1 THEN 0 ELSE result.levels[k - 1]

\* the nesting depth of part k in its document: the elements open around it
NestingDepth(k) ==
    LET before == {j \in 1..(k - 1) : args.parts[j].kind = "open"}
        closed == {j \in 1..k : args.parts[j].kind = "close"}
    IN  Cardinality(before) - Cardinality(closed)

\* what format_xml does with its parts, given the level a closing tag met at
\* level 0 leaves (0 with the clamp, -1 with "lowers it by one")
TracksDepth(closed_at_0) ==
    /\ \A k \in 1..Len(result.lines) :
          LET part == args.parts[k]
              line == result.lines[k]
              before == LevelBefore(k)
              after == result.levels[k]
          IN  /\ line.tag = part
              /\ before >= 0 /\ after >= 0
              /\ part.kind = "open" => line.indent = before /\ after = before + 1
              /\ part.kind = "close" =>
                    /\ after = (IF before = 0 THEN closed_at_0 ELSE before - 1)
                    /\ line.indent = after
              /\ part.kind \in {"self", "decl"} => after = before
              /\ part.kind = "self" => line.indent = before
    /\ Len(result.lines) > 0 => result.indent_level = result.levels[Len(result.lines)]
    /\ pc = "done" =>
          /\ result.lines = format_xml(args.parts)
          /\ args.emitter # "" =>
                /\ \A k \in 1..Len(result.lines) : result.lines[k].indent = NestingDepth(k)
                /\ result.indent_level = 0

\* C22: format_xml tracks the nesting depth: the indent level is never
\* negative; an opening tag is emitted at the current level and raises it by
\* one; a closing tag lowers it by one, but not below 0, and is emitted at the
\* lowered level; self-closing tags and the declaration leave it unchanged;
\* in the documents of the three emitters every line's indentation is the
\* nesting depth of its element and the level is 0 after the last part.
C22_IndentTracksDepth == TracksDepth(0)

\* C22 as stated: every closing tag lowers the level by one
C22_ClosingAlwaysLowers == TracksDepth(-1)

\* the combined document has been formatted: its <torque> lines are three deep
C22_Witness ==
    /\ pc = "done"
    /\ args.emitter = "generate_combined_fs25_xml"
    /\ result.indent_level = 0
    /\ \E k \in 1..Len(result.lines) :
          /\ result.lines[k].tag.name = "torque"
          /\ result.lines[k].indent = 3

----------------------------------------------------------------------------
(* Properties of the startup (SpecStartup) *)

\* the positions of __init__, and its outcomes
StartupPositions == {"__init__", "Initialize variables", "self.setup_gui()", "gui", "raised"}

\* C23: on both toolkit paths no widget-building step reads engine_data or
\* transmission_data before they are assigned (no AttributeError ends
\* __init__), and setup_gui runs exactly once during __init__: never twice,
\* and once when __init__ has returned.
C23_StartupOrder ==
    pc \in StartupPositions =>
        /\ result.raised = ""
        /\ result.setup_gui_calls <= 1
        /\ result.setup_gui_calls > 0 =>
              self_engine_data # Unset /\ self_transmission_data # Unset
        /\ pc = "gui" => result.setup_gui_calls = 1

\* the standard-Tkinter path has entered setup_gui
C23_Witness ==
    /\ pc \in StartupPositions
    /\ ~ args.CUSTOM_TKINTER_AVAILABLE
    /\ result.setup_gui_calls = 1

\* on the CustomTkinter path __init__ returns with the form of the session
C23_HoldsWithCustomTkinter ==
    (pc \in StartupPositions /\ args.CUSTOM_TKINTER_AVAILABLE) =>
        /\ result.raised = ""
        /\ result.setup_gui_calls <= 1
        /\ result.setup_gui_calls > 0 =>
              self_engine_data # Unset /\ self_transmission_data # Unset
        /\ (pc = "gui" /\ steps = 0) =>
              /\ result.setup_gui_calls = 1
              /\ InitWindow /\ _preset_lock = 1 /\ locks = <<NoThread>>

-----------------------------------------------------------------------------
(* Properties of generate_torque_curve on doubles (SpecBinary64, SpecTorque) *)

\* the call passes the three checks of generate_torque_curve
PassesChecks == pc = "done" /\ args.hp > 0 /\ args.min_rpm >= 0
                /\ args.max_rpm > args.min_rpm

\* C28: for every input that passes the three checks of generate_torque_curve,
\* peak_rpm lies strictly between min_rpm and max_rpm and no division of the
\* call is a division by zero.
C28_DivisorsNonZero ==
    PassesChecks =>
        /\ args.min_rpm < peak_rpm_binary64(args.min_rpm, args.max_rpm)
        /\ peak_rpm_binary64(args.min_rpm, args.max_rpm) < args.max_rpm
        /\ result.ok

\* a call with max_rpm the double next to min_rpm has returned or raised
C28_Witness ==
    /\ PassesChecks
    /\ ~ args.turbocharged
    /\ args.max_rpm = args.min_rpm + 1
    /\ ~ result.ok /\ result.error = "ZeroDivisionError"

\* C28 in exact arithmetic (SpecTorque): peak_rpm is strictly between min_rpm and
\* max_rpm, the call returns, and peak_rpm, peak_rpm * 0.8, max_rpm - peak_rpm,
\* max_rpm - peak_rpm * 0.8, max_rpm and the largest torque are not zero.
C28_HoldsInExactArithmetic ==
    PassesChecks =>
        LET peak == peak_rpm(args.min_rpm, args.max_rpm)
            max_torque == RMaxOf([k \in 1..10 |-> result.value[k].torque])
        IN  /\ RLt(RInt(args.min_rpm), peak) /\ RLt(peak, RInt(args.max_rpm))
            /\ result.ok
            /\ peak.n # 0
            /\ RMul(peak, Rat(8, 10)).n # 0
            /\ RSub(RInt(args.max_rpm), peak).n # 0
            /\ RSub(RInt(args.max_rpm), RMul(peak, Rat(8, 10))).n # 0
            /\ args.max_rpm # 0
            /\ max_torque.n # 0

====
